---- MODULE Spec2Model ----
(***************************************************************************)
(* A model of the task executor of interpolation_engine.py: execute_task,  *)
(* main_menu, toggle_menu and async_main, run by the asyncio event loop.   *)
(*                                                                         *)
(* The event loop is modelled as asyncio runs it: a FIFO queue of ready    *)
(* handles (task steps, done-callbacks of gather and wait, signal and key  *)
(* handlers); one handle runs at a time, and a task that runs keeps        *)
(* running until its next real suspension (sleep, prompt, gather, wait).   *)
(* The handles that are ready when an iteration of the loop starts run in  *)
(* that iteration; timers, key presses and signals enter the queue at the  *)
(* poll between two iterations.                                            *)
(*                                                                         *)
(* Strings are sequences of atoms, so that concatenation (+=) and          *)
(* str.startswith are computed as the code computes them.                  *)
(***************************************************************************)
EXTENDS Integers, Sequences, FiniteSets, TLC

\* ------------------------------------------------------------------ bounds
MaxTasks   == 12  \* asyncio Task objects alive at the same time
MaxKeys    == 4   \* key presses and signals in the longest run: SIGINT /
                  \* Escape, Ctrl-D, and the options picked in the main menu
MaxSlot    == 1   \* save slots offered by the menu (the code offers 9)
MaxObj     == 4   \* inserts dictionaries alive at the same time
MaxBody    == 2   \* tasks in the body of a block of a validated program
MaxSteps   == 8   \* tasks the run of a validated program dispatches

TaskIds == 1..MaxTasks
Slots   == 1..MaxSlot
ObjIds  == 1..MaxObj

\* ---------------------------------------------------------- small helpers
Max(a, b) == IF a >= b THEN a ELSE b

SetMin(S) == CHOOSE x \in S : \A y \in S : x <= y

IsPrefix(p, s) == Len(p) <= Len(s) /\ SubSeq(s, 1, Len(p)) = p

Range(f) == {f[x] : x \in DOMAIN f}

\* dict[k] = v on a dictionary modelled as a function with a finite domain
Put(d, k, v) == [x \in (DOMAIN d) \cup {k} |-> IF x = k THEN v ELSE d[x]]

\* del dict[k]
Del(d, k) == [x \in (DOMAIN d) \ {k} |-> d[x]]

\* dict.get(k, default)
Get(d, k, default) == IF k \in DOMAIN d THEN d[k] ELSE default

EmptyDict == [x \in {} |-> 0]

\* ------------------------------------------------------- program syntax
\* A field of a task is a literal text or a simple insert key '{key}'.
Lit(s) == [ref |-> FALSE, key |-> "", s |-> s]
Ref(k) == [ref |-> TRUE, key |-> k, s |-> <<>>]

Blank ==
    [cmd |-> "", line |-> 0, tasks |-> <<>>, name |-> "", item |-> Lit(<<>>),
     output_name |-> "", text |-> Lit(<<>>), name_list_map |-> <<>>]

Set(l, out, item)   == [Blank EXCEPT !.cmd = "set", !.line = l, !.output_name = out, !.item = item]
Print_(l, text)     == [Blank EXCEPT !.cmd = "print", !.line = l, !.text = text]
Sleep(l)            == [Blank EXCEPT !.cmd = "sleep", !.line = l]
Label(l, n)         == [Blank EXCEPT !.cmd = "label", !.line = l, !.name = n]
Goto(l, n)          == [Blank EXCEPT !.cmd = "goto", !.line = l, !.name = n]
Serial(l, ts)       == [Blank EXCEPT !.cmd = "serial", !.line = l, !.tasks = ts]
For(l, nlm, ts)     == [Blank EXCEPT !.cmd = "for", !.line = l, !.name_list_map = nlm, !.tasks = ts]
ParallelWait(l, ts) == [Blank EXCEPT !.cmd = "parallel_wait", !.line = l, !.tasks = ts]
ParallelRace(l, ts) == [Blank EXCEPT !.cmd = "parallel_race", !.line = l, !.tasks = ts]

\* one entry of a for task's name_list_map: the variable and its inline list
Bind(n, lst) == [name |-> n, list |-> lst]

\* ----------------------------------------------------------------- texts
A == <<"a">>
B == <<"b">>
W == <<"w">>
L == <<"l">>
Z == <<"z">>

\* ------------------------------------------------------------- programs
\* Each run is a program file (its order and the save_states it holds from
\* an earlier run) and the command line arguments.

\* a serial body with a goto over a label, and a goto at top level
OrderSerial ==
    << Serial(1, << Label(2, "TOP"), Print_(3, Lit(A)), Goto(4, "L"), Print_(5, Lit(Z)),
                    Label(6, "L"), Sleep(7), Print_(8, Lit(B)) >>),
       Goto(9, "END"),
       Print_(10, Lit(Z)),
       Label(11, "END"),
       Goto(12, "CONTINUE") >>

\* a for body that overwrites its iteration variable before it suspends
OrderFor ==
    << For(1, << Bind("x", <<A, B>>) >>,
              << Set(2, "x", Lit(Z)), Sleep(3), Print_(4, Ref("x")) >>) >>

\* a for over lists of different lengths
OrderForBad ==
    << For(1, << Bind("x", <<A, B>>), Bind("y", <<A>>) >>, << Sleep(2) >>) >>

\* a race between a serial body that writes before it sleeps and a sleep
OrderRace ==
    << ParallelRace(1, << Serial(2, << Set(3, "j", Lit(L)), Sleep(4) >>),
                          Sleep(5) >>) >>

\* a parallel_wait whose first child fails at once when ARG1 is absent,
\* while its sibling sleeps
OrderWait ==
    << ParallelWait(1, << Print_(2, Ref("ARG1")),
                          Serial(3, << Sleep(4), Set(5, "k", Lit(W)) >>) >>) >>

\* a race whose first child is a parallel_wait that fails at once when ARG1
\* is absent, while a task three blocks deeper has not started yet
OrderDeep ==
    << ParallelRace(1,
         << ParallelWait(2,
              << Print_(3, Ref("ARG1")),
                 ParallelWait(4, << ParallelWait(5,
                    << Serial(6, << Sleep(7), Set(8, "k", Lit(W)) >>) >>) >>) >>),
            Set(9, "c", Lit(A)) >>) >>

\* two races under one parallel_wait; the line number of the second begins
\* with the digits of the first
OrderSiblings ==
    << ParallelWait(1,
         << ParallelRace(2, << Sleep(3) >>),
            ParallelRace(21, << Serial(22, << Sleep(23) >>) >>) >>) >>

\* the state a run with the given arguments starts in (async_main, 2088-2096)
StartInserts(args) == [k \in {"ARG1"} \cap (IF Len(args) >= 1 THEN {"ARG1"} ELSE {}) |-> args[1]]

\* a snapshot left in the file by an earlier run that was started with args
\* and saved before its first task
EarlierSnapshot(args) ==
    [inserts |-> StartInserts(args), output |-> <<>>, order_index |-> 1,
     cur |-> EmptyDict, label |-> <<"e">>]

NoFileSaves == EmptyDict

\* a run also fixes how many key presses and signals the user sends; the
\* runs of the parallel programs are explored with fewer of them
Run(order, args, saves, keys) ==
    [order |-> order, args |-> args, saves |-> saves, keys |-> keys]

Runs ==
    { Run(OrderSerial, <<>>, NoFileSaves, MaxKeys),
      Run(OrderFor, <<>>, NoFileSaves, MaxKeys),
      Run(OrderForBad, <<>>, NoFileSaves, MaxKeys),
      Run(OrderRace, <<B>>, (1 :> EarlierSnapshot(<<A>>)), MaxKeys - 1),
      Run(OrderWait, <<>>, NoFileSaves, MaxKeys - 3),
      Run(OrderDeep, <<>>, NoFileSaves, MaxKeys - 3),
      Run(OrderSiblings, <<>>, NoFileSaves, MaxKeys - 4) }

\* ---------------------------------------------------- the program tree
\* A task is named by its path: the index in order, then the indices in the
\* tasks lists on the way down.
RECURSIVE TaskAt(_, _)
TaskAt(order, path) ==
    IF Len(path) = 1 THEN order[path[1]]
    ELSE TaskAt(order, SubSeq(path, 1, Len(path) - 1)).tasks[path[Len(path)]]

Parent(path) == SubSeq(path, 1, Len(path) - 1)

\* str(n) for a line number
RECURSIVE Digits(_)
Digits(n) ==
    LET d == <<"0", "1", "2", "3", "4", "5", "6", "7", "8", "9">>
    IN  IF n < 10 THEN <<d[n + 1]>> ELSE Digits(n \div 10) \o <<d[(n % 10) + 1]>>

\* f"{task['cmd']}-{task['line']}"
CmdLine(task) == <<task.cmd, "-">> \o Digits(task.line)

\* validate_program: a top-level task is labelled cmd-line, a subtask gets
\* its parent's label, a slash and its own cmd-line
RECURSIVE traceback_label(_, _)
traceback_label(order, path) ==
    IF Len(path) = 1 THEN CmdLine(order[path[1]])
    ELSE traceback_label(order, Parent(path)) \o <<"/">> \o CmdLine(TaskAt(order, path))

\* execute_task's runtime_label: the top-level task runs under its traceback
\* label, a subtask under f"{runtime_label}/{subtask['traceback_label']}"
RECURSIVE runtime_label(_, _)
runtime_label(order, path) ==
    IF Len(path) = 1 THEN traceback_label(order, path)
    ELSE runtime_label(order, Parent(path)) \o <<"/">> \o traceback_label(order, path)

\* f"order_index/{runtime_label}"
sub_index_label(rl) == <<"order_index/">> \o rl

\* f"order_index/{runtime_label}/counter"
counter_label(rl) == <<"order_index/">> \o rl \o <<"/", "counter">>

\* min(i for i in range(len(tasks)) if tasks[i] is the label goto_target),
\* as a set of 0-based indices: empty when there is no such label
LabelIndices(tasks, goto_target) ==
    {i \in 0..(Len(tasks) - 1) : tasks[i + 1].cmd = "label" /\ tasks[i + 1].name = goto_target}

\* ------------------------------------------------------------ the state
VARIABLES
    run,          \* the program file and the command line of this run
    state,        \* the live state dict: inserts (a reference), output,
                  \* order_index, the cursor keys (cur) and label
    heap,         \* the inserts dictionaries, by reference
    save_states,  \* program['save_states']: slot -> snapshot
    disk,         \* the save_states value last written to the program file
    menu_state,   \* is_menu_open and async_task
    killme,       \* the terminate flag
    tasks,        \* the asyncio Task objects
    ready,        \* the event loop's queue of ready handles
    batch,        \* how many handles the current iteration of the loop still runs
    running,      \* the task whose coroutine is executing, 0 when none is
    main_pc,      \* where async_main is
    budget,       \* how many key presses and signals may still arrive
    hist          \* history of the run, read by the properties only

\* the state of validate_program and of the run it admits
VARIABLES
    vprog,        \* the program read from the file: order, named_tasks and
                  \* the inserts of default_state
    vpc,          \* "loaded", then "rejected" or "validated", then "ran"
    vout          \* how the run of the validated program ended

vvars == <<vprog, vpc, vout>>

\* the state of a forward filter (filter.py) that is fed a sample in chunks
VARIABLES
    fin,          \* start_str, stop_str, enumerate_outputs and the sample
    fst,          \* the closure of filter(): mode_is_shown, buffer, outputs
    fout          \* what was fed and what the calls returned

fvars == <<fin, fst, fout>>

\* the state of one interpolation of a text of characters
VARIABLES
    iin,          \* the inserts, the content to interpolate and the text that
                  \* comes from outside (an argument, an answer of the user)
    ipc,          \* "start", "ready", "interpolated", "printed"
    iout          \* what the interpolation returned and what print showed

ivars == <<iin, ipc, iout>>

\* the state of one evaluation of a mathematical expression (eval_math)
VARIABLES
    min,          \* the expression: its text and the tree it was written from
    mpc,          \* "start", then "evaluated"
    mout          \* what eval_math returned or raised

mvars == <<min, mpc, mout>>

\* the state of one task that execute_task handles on its own: list_index,
\* list_slice, goto_map, replace_map, and of the wildcard functions they use
VARIABLES
    tin,          \* the task and the inserts it is executed with
    tpc,          \* "start", then "done"
    tout          \* the inserts after the task and what execute_task returned

tvars == <<tin, tpc, tout>>

\* the state of one chat task: the stream of the completion and its filters
VARIABLES
    cin,          \* the task: its fences, n_outputs, shown, and the replies
    cst,          \* where the task is: the attempt, the position in the stream
    cout          \* what was shown, what was extracted, how the task ended

cvars == <<cin, cst, cout>>

\* the variables of the commands that are checked on their own
cmds == <<mvars, tvars, cvars>>

\* the variables of the functions that are checked on their own
pure == <<vvars, fvars, ivars, cmds>>

\* the variables of the task executor
evars == <<run, state, heap, save_states, disk, menu_state, killme, tasks,
           ready, batch, running, main_pc, budget, hist>>

vars == <<evars, pure>>

\* no program is being validated
NoProgram == [order |-> <<>>, named_tasks |-> EmptyDict, inserts |-> EmptyDict]

ValidatorAtRest ==
    /\ vprog = NoProgram
    /\ vpc = ""
    /\ vout = [end |-> "", faults |-> {}]

\* no filter has been made
NoFilter == [start_str |-> <<>>, stop_str |-> <<>>, enumerate_outputs |-> FALSE,
             sample |-> <<>>]

\* filter(): mode_is_shown = [False], buffer = [""], outputs = []
FreshFilter == [mode_is_shown |-> FALSE, buffer |-> <<>>, outputs |-> <<>>]

\* nothing fed, nothing returned
NothingFed == [i |-> 0, printed |-> <<>>, ret |-> <<>>, widths |-> {}]

FilterAtRest ==
    /\ fin = NoFilter
    /\ fst = FreshFilter
    /\ fout = NothingFed

\* nothing has been interpolated
NoResult == [ret |-> "", value |-> <<>>, lookups |-> {}, shown |-> <<>>]

InterpolationAtRest ==
    /\ iin = [case |-> "", inserts |-> EmptyDict, content |-> <<>>, text |-> <<>>]
    /\ ipc = ""
    /\ iout = NoResult

\* no expression is being evaluated
MathAtRest ==
    /\ min = [text |-> <<>>, tree |-> <<>>]
    /\ mpc = ""
    /\ mout = [ret |-> "", value |-> 0]

\* no task is being executed on its own
TaskAtRest ==
    /\ tin = <<>>
    /\ tpc = ""
    /\ tout = <<>>

\* no chat task is running
ChatAtRest ==
    /\ cin = <<>>
    /\ cst = <<>>
    /\ cout = <<>>

CmdsAtRest ==
    /\ MathAtRest
    /\ TaskAtRest
    /\ ChatAtRest

PureAtRest ==
    /\ ValidatorAtRest
    /\ FilterAtRest
    /\ InterpolationAtRest
    /\ CmdsAtRest

order == run.order

\* ---------------------------------------------------------- asyncio.Task
NoFlow == [m |-> "", v |-> "", n |-> 0, from |-> <<>>, kids |-> <<>>]
NoFut  == [k |-> "", done |-> FALSE, res |-> "", n |-> 0, kids |-> <<>>, nfin |-> 0,
           cancel_requested |-> FALSE, return_exceptions |-> FALSE]
NoCb   == [k |-> "", p |-> 0]

FreeTask ==
    [st |-> "free", kind |-> "", stack |-> <<>>, flow |-> NoFlow, fut |-> NoFut,
     must_cancel |-> FALSE, result |-> "", retval |-> "", cb |-> NoCb,
     wrote |-> {}]

\* loop.create_task(coro) / ensure_future(coro): the coroutine has not started
NewTask(kind, frame, cb) ==
    [FreeTask EXCEPT !.st = "pending", !.kind = kind, !.stack = <<frame>>, !.cb = cb]

Frame(path, pc, ins) ==
    [path |-> path, pc |-> pc, ins |-> ins, kids |-> <<>>, done |-> {}, slot |-> 0]

Handle(k, t, p) == [k |-> k, t |-> t, p |-> p]

\* the n smallest ids free in ts, in increasing order
RECURSIVE FreeIds(_, _, _)
FreeIds(ts, n, from) ==
    IF n = 0 \/ from > MaxTasks THEN <<>>
    ELSE IF ts[from].st = "free" THEN <<from>> \o FreeIds(ts, n - 1, from + 1)
    ELSE FreeIds(ts, n, from + 1)

\* Task.cancel() (asyncio): a finished task ignores it; a task waiting on a
\* future that is not done cancels the future - for a gather this cancels the
\* children and marks the gather (_cancel_requested), for any other future
\* the task is woken with CancelledError; otherwise _must_cancel makes the
\* task's next step raise CancelledError.
\* Gives the new task table, the new ready queue and the return value.
RECURSIVE CancelTask(_, _, _)
RECURSIVE CancelAll(_, _, _, _)
CancelTask(ts, rdy, t) ==
    LET T == ts[t] IN
    IF T.st # "pending" THEN [ts |-> ts, rdy |-> rdy, ret |-> FALSE]
    ELSE IF T.fut.k = "" \/ T.fut.done
    THEN [ts |-> [ts EXCEPT ![t].must_cancel = TRUE], rdy |-> rdy, ret |-> TRUE]
    ELSE IF T.fut.k = "gather"
    THEN LET r == CancelAll(ts, rdy, T.fut.kids, 1) IN
         IF r.ret
         THEN [ts |-> [r.ts EXCEPT ![t].fut.cancel_requested = TRUE], rdy |-> r.rdy, ret |-> TRUE]
         ELSE [ts |-> [r.ts EXCEPT ![t].must_cancel = TRUE], rdy |-> r.rdy, ret |-> TRUE]
    ELSE [ts |-> [ts EXCEPT ![t].fut.done = TRUE, ![t].fut.res = "cancel"],
          rdy |-> Append(rdy, Handle("step", t, 0)), ret |-> TRUE]

\* for p in kids: p.cancel(); ret is whether any call returned True
CancelAll(ts, rdy, kids, i) ==
    IF i > Len(kids) THEN [ts |-> ts, rdy |-> rdy, ret |-> FALSE]
    ELSE LET r == CancelTask(ts, rdy, kids[i])
             q == CancelAll(r.ts, r.rdy, kids, i + 1)
         IN  [ts |-> q.ts, rdy |-> q.rdy, ret |-> r.ret \/ q.ret]

\* the tasks something still refers to: a frame, a future, a handle, menu_state
Referenced(ts, rdy, ms) ==
    UNION { UNION { Range(ts[t].stack[i].kids) : i \in 1..Len(ts[t].stack) }
            \cup Range(ts[t].fut.kids) \cup Range(ts[t].flow.kids) : t \in TaskIds }
    \cup { rdy[i].t : i \in 1..Len(rdy) }
    \cup { ms.async_task }

\* a finished task nothing refers to is garbage
Collect(ts, rdy, ms) ==
    [t \in TaskIds |->
        IF ts[t].st = "done" /\ t \notin Referenced(ts, rdy, ms) THEN FreeTask ELSE ts[t]]

\* the handle that reports the end of task t to whoever registered for it:
\* gather's _done_callback, wait's _on_completion, or the wakeup of async_main
DoneHandles(T, t) ==
    IF T.cb.k = "" THEN <<>> ELSE <<Handle(T.cb.k, t, T.cb.p)>>

\* ------------------------------------------------- interpolation of fields
\* get_interpdata: an ARG<n> key or any other key that is not in inserts
\* raises InterpolationException (no inserts directory is configured)
InterpolationFault(inserts, x) == x.ref /\ x.key \notin DOMAIN inserts

\* interpolate_inserts on a literal text or a simple insert key
interpolate_inserts(inserts, x) == IF x.ref THEN inserts[x.key] ELSE x.s

\* recursive_interpolate(inserts, task) raises: the fields of set and print
\* are interpolated before dispatch, the bodies of for, serial and the
\* parallel blocks are not
recursive_interpolate_raises(inserts, task) ==
    \/ task.cmd = "set" /\ InterpolationFault(inserts, task.item)
    \/ task.cmd = "print" /\ InterpolationFault(inserts, task.text)

\* ------------------------------------------------------------ coroutines
Top(T) == T.stack[Len(T.stack)]

TopTask(T) == TaskAt(order, Top(T).path)

SetTop(T, f) == [T EXCEPT !.stack[Len(T.stack)] = f]

\* the coroutine of the top frame ends: it returns v (m = "ret") or raises v
\* (m = "raise") into the frame that awaits it
Leave(T, m, v) ==
    [T EXCEPT !.stack = SubSeq(T.stack, 1, Len(T.stack) - 1),
              !.flow = [m |-> m, v |-> v, n |-> 0, from |-> Top(T).path, kids |-> Top(T).kids]]

\* the top frame awaits execute_task(subtask): a new coroutine starts
Call(T, path) ==
    [T EXCEPT !.stack = Append(T.stack, Frame(path, "start", state.inserts)),
              !.flow = [NoFlow EXCEPT !.m = "call"]]

\* the task has written the given insert keys (read by the properties only)
Wrote(T, keys) == [T EXCEPT !.wrote = @ \cup keys]

\* the top frame goes on at the given point of its own code
Goes(T, m) == [T EXCEPT !.flow = [NoFlow EXCEPT !.m = m]]

\* the coroutine suspends on a future: the event loop takes over
Suspend(T, pc, fut) ==
    [SetTop(T, [Top(T) EXCEPT !.pc = pc]) EXCEPT !.flow = NoFlow, !.fut = fut]

Executing(t, m, cmd) ==
    /\ running = t
    /\ tasks[t].kind = "exec"
    /\ tasks[t].flow.m = m
    /\ Len(tasks[t].stack) > 0
    /\ TopTask(tasks[t]).cmd = cmd

\* what an action of the running task leaves alone
Frame_Exec == <<run, pure, save_states, disk, menu_state, killme, main_pc, budget, hist, batch>>

\* the running task goes on with task record T2
Continue(t, T2) ==
    /\ tasks' = Collect([tasks EXCEPT ![t] = T2], ready, menu_state)
    /\ UNCHANGED <<ready, running>>

\* execute_task, 1354: recursive_interpolate raises InterpolationException
ExecInterpolationFault(t) ==
    /\ running = t /\ tasks[t].kind = "exec" /\ tasks[t].flow.m = "call"
    /\ recursive_interpolate_raises(heap[Top(tasks[t]).ins], TopTask(tasks[t]))
    /\ Continue(t, Leave(tasks[t], "raise", "err"))
    /\ UNCHANGED <<state, heap>>
    /\ UNCHANGED Frame_Exec

\* case 'set': set_interpdata(inserts, output_name, item)
ExecSet(t) ==
    /\ Executing(t, "call", "set")
    /\ LET f == Top(tasks[t])
           task == TopTask(tasks[t])
       IN  /\ ~recursive_interpolate_raises(heap[f.ins], task)
           /\ heap' = [heap EXCEPT ![f.ins] =
                          Put(@, task.output_name, interpolate_inserts(heap[f.ins], task.item))]
    /\ Continue(t, Wrote(Leave(tasks[t], "ret", "None"), {TopTask(tasks[t]).output_name}))
    /\ UNCHANGED state
    /\ UNCHANGED Frame_Exec

\* case 'print': state['output'] += text; IOManager.write does not suspend
ExecPrint(t) ==
    /\ Executing(t, "call", "print")
    /\ LET f == Top(tasks[t])
           task == TopTask(tasks[t])
       IN  /\ ~recursive_interpolate_raises(heap[f.ins], task)
           /\ state' = [state EXCEPT !.output = @ \o interpolate_inserts(heap[f.ins], task.text)]
    /\ Continue(t, Leave(tasks[t], "ret", "None"))
    /\ UNCHANGED heap
    /\ UNCHANGED Frame_Exec

\* case 'label': pass
ExecLabel(t) ==
    /\ Executing(t, "call", "label")
    /\ Continue(t, Leave(tasks[t], "ret", "None"))
    /\ UNCHANGED <<state, heap>>
    /\ UNCHANGED Frame_Exec

\* case 'goto': return {'goto_target': target} unless target is CONTINUE
ExecGoto(t) ==
    /\ Executing(t, "call", "goto")
    /\ LET target == TopTask(tasks[t]).name
       IN  Continue(t, Leave(tasks[t], "ret", IF target # "CONTINUE" THEN target ELSE "None"))
    /\ UNCHANGED <<state, heap>>
    /\ UNCHANGED Frame_Exec

\* the running task suspends with task record T2
Yield(t, T2) ==
    /\ tasks' = Collect([tasks EXCEPT ![t] = T2], ready, menu_state)
    /\ running' = 0
    /\ UNCHANGED ready

\* case 'sleep': await asyncio.sleep(seconds)
ExecSleep(t) ==
    /\ Executing(t, "call", "sleep")
    /\ Yield(t, Suspend(tasks[t], "sleep", [NoFut EXCEPT !.k = "sleep"]))
    /\ UNCHANGED <<state, heap>>
    /\ UNCHANGED Frame_Exec

\* the sleep is over, or CancelledError is raised at the await
ResumeSleep(t) ==
    /\ Executing(t, "resume", "sleep")
    /\ Continue(t, IF tasks[t].flow.v = "ok" THEN Leave(tasks[t], "ret", "None")
                   ELSE Leave(tasks[t], "raise", tasks[t].flow.v))
    /\ UNCHANGED <<state, heap>>
    /\ UNCHANGED Frame_Exec

\* ----------------------------------------------------------- serial, for
\* what a sequence does with the value its subtask returned (1495-1503,
\* 1671-1679): None advances the cursor, a goto target moves it one past the
\* label.  The cursor is state[sub_index_label]; += on a key that is gone
\* raises KeyError, min() of no label raises ValueError.
CursorRaises(cur, key, tasklist, v) ==
    IF v = "None" THEN key \notin DOMAIN cur ELSE LabelIndices(tasklist, v) = {}

CursorAfter(cur, key, tasklist, v) ==
    IF v = "None" THEN Put(cur, key, cur[key] + 1)
    ELSE Put(cur, key, 2 + SetMin(LabelIndices(tasklist, v)))

\* case 'serial', 1490-1491: the cursor starts at 1 unless state holds one
SerialEnter(t) ==
    /\ Executing(t, "call", "serial")
    /\ LET key == sub_index_label(runtime_label(order, Top(tasks[t]).path))
       IN  state' = [state EXCEPT !.cur = Put(@, key, Get(@, key, 1))]
    /\ Continue(t, Goes(tasks[t], "loop"))
    /\ UNCHANGED heap
    /\ UNCHANGED Frame_Exec

\* 1492-1494 and 1505: run the subtask under the cursor, or delete the cursor
\* and return when it is past the last subtask
SerialLoop(t) ==
    /\ Executing(t, "loop", "serial")
    /\ LET f == Top(tasks[t])
           task == TopTask(tasks[t])
           key == sub_index_label(runtime_label(order, f.path))
       IN  IF key \notin DOMAIN state.cur
           THEN /\ Continue(t, Leave(tasks[t], "raise", "err"))
                /\ UNCHANGED state
           ELSE IF state.cur[key] <= Len(task.tasks)
           THEN /\ Continue(t, Call(tasks[t], f.path \o <<state.cur[key]>>))
                /\ UNCHANGED state
           ELSE /\ state' = [state EXCEPT !.cur = Del(@, key)]
                /\ Continue(t, Leave(tasks[t], "ret", "None"))
    /\ UNCHANGED heap
    /\ UNCHANGED Frame_Exec

\* 1495-1503: the subtask has returned
SerialReturn(t) ==
    /\ Executing(t, "ret", "serial")
    /\ LET f == Top(tasks[t])
           task == TopTask(tasks[t])
           key == sub_index_label(runtime_label(order, f.path))
           v == tasks[t].flow.v
       IN  IF CursorRaises(state.cur, key, task.tasks, v)
           THEN /\ Continue(t, Leave(tasks[t], "raise", "err"))
                /\ UNCHANGED state
           ELSE /\ state' = [state EXCEPT !.cur = CursorAfter(@, key, task.tasks, v)]
                /\ Continue(t, Goes(tasks[t], "loop"))
    /\ UNCHANGED heap
    /\ UNCHANGED Frame_Exec

\* case 'for', 1642-1657: the lists must have one length; the iteration
\* counter starts at 1 unless state holds one
ForEnter(t) ==
    /\ Executing(t, "call", "for")
    /\ LET f == Top(tasks[t])
           nlm == TopTask(tasks[t]).name_list_map
           key == counter_label(runtime_label(order, f.path))
       IN  IF Cardinality({Len(nlm[i].list) : i \in 1..Len(nlm)}) # 1
           THEN /\ Continue(t, Leave(tasks[t], "raise", "err"))
                /\ UNCHANGED state
           ELSE /\ state' = [state EXCEPT !.cur = Put(@, key, Get(@, key, 1))]
                /\ Continue(t, Goes(tasks[t], "outer"))
    /\ UNCHANGED heap
    /\ UNCHANGED Frame_Exec

\* a for that binds the first item of every list in every iteration
BindItems_First(inserts, nlm, n, i) ==
    [k \in DOMAIN inserts \cup {nlm[j].name : j \in 1..Len(nlm)} |->
        IF \E j \in 1..Len(nlm) : nlm[j].name = k
        THEN nlm[CHOOSE j \in 1..Len(nlm) : nlm[j].name = k].list[1]
        ELSE inserts[k]]

\* the iteration variables of iteration n, bound in list order (1661-1663)
RECURSIVE BindItems(_, _, _, _)
BindItems(inserts, nlm, n, i) ==
    IF i > Len(nlm) THEN inserts
    ELSE BindItems(Put(inserts, nlm[i].name, nlm[i].list[n]), nlm, n, i + 1)

\* 1659-1666 and 1684: start the next iteration - bind the iteration
\* variables, take the body's cursor from state or start it at 1 - or delete
\* the counter and return after the last one
ForOuter(t) ==
    /\ Executing(t, "outer", "for")
    /\ LET f == Top(tasks[t])
           nlm == TopTask(tasks[t]).name_list_map
           rl == runtime_label(order, f.path)
           ckey == counter_label(rl)
           key == sub_index_label(rl)
       IN  IF ckey \notin DOMAIN state.cur
           THEN /\ Continue(t, Leave(tasks[t], "raise", "err"))
                /\ UNCHANGED <<state, heap>>
           ELSE IF state.cur[ckey] <= Len(nlm[1].list)
           THEN /\ heap' = [heap EXCEPT ![f.ins] = BindItems(@, nlm, state.cur[ckey], 1)]
                /\ state' = [state EXCEPT !.cur = Put(@, key, Get(@, key, 1))]
                /\ Continue(t, Wrote(Goes(tasks[t], "inner"), {nlm[i].name : i \in 1..Len(nlm)}))
           ELSE /\ state' = [state EXCEPT !.cur = Del(@, ckey)]
                /\ UNCHANGED heap
                /\ Continue(t, Leave(tasks[t], "ret", "None"))
    /\ UNCHANGED Frame_Exec

\* 1668-1670 and 1681-1682: run the subtask under the body's cursor, or end
\* the iteration: counter += 1, then delete the body's cursor
ForInner(t) ==
    /\ Executing(t, "inner", "for")
    /\ LET f == Top(tasks[t])
           task == TopTask(tasks[t])
           rl == runtime_label(order, f.path)
           ckey == counter_label(rl)
           key == sub_index_label(rl)
       IN  IF key \notin DOMAIN state.cur
           THEN /\ Continue(t, Leave(tasks[t], "raise", "err"))
                /\ UNCHANGED state
           ELSE IF state.cur[key] <= Len(task.tasks)
           THEN /\ Continue(t, Call(tasks[t], f.path \o <<state.cur[key]>>))
                /\ UNCHANGED state
           ELSE IF ckey \notin DOMAIN state.cur
           THEN /\ Continue(t, Leave(tasks[t], "raise", "err"))
                /\ UNCHANGED state
           ELSE /\ state' = [state EXCEPT !.cur = Del(Put(@, ckey, @[ckey] + 1), key)]
                /\ Continue(t, Goes(tasks[t], "outer"))
    /\ UNCHANGED heap
    /\ UNCHANGED Frame_Exec

\* 1671-1679: the subtask of the body has returned
ForReturn(t) ==
    /\ Executing(t, "ret", "for")
    /\ LET f == Top(tasks[t])
           task == TopTask(tasks[t])
           key == sub_index_label(runtime_label(order, f.path))
           v == tasks[t].flow.v
       IN  IF CursorRaises(state.cur, key, task.tasks, v)
           THEN /\ Continue(t, Leave(tasks[t], "raise", "err"))
                /\ UNCHANGED state
           ELSE /\ state' = [state EXCEPT !.cur = CursorAfter(@, key, task.tasks, v)]
                /\ Continue(t, Goes(tasks[t], "inner"))
    /\ UNCHANGED heap
    /\ UNCHANGED Frame_Exec

\* an exception or a cancellation raised by the awaited subtask passes
\* through serial and for, which catch nothing
Propagate(t) ==
    /\ running = t /\ tasks[t].kind = "exec" /\ tasks[t].flow.m = "raise"
    /\ Len(tasks[t].stack) > 0
    /\ Continue(t, Leave(tasks[t], "raise", tasks[t].flow.v))
    /\ UNCHANGED <<state, heap>>
    /\ UNCHANGED Frame_Exec

\* -------------------------------------------------------- parallel blocks
\* the tasks created for the subtasks of the block at path, in list order:
\* each is scheduled for its first step and reports its end to task t
Spawn(ts, ids, path, t, cbk) ==
    [x \in TaskIds |->
        IF \E i \in 1..Len(ids) : ids[i] = x
        THEN LET i == CHOOSE j \in 1..Len(ids) : ids[j] = x
             IN  NewTask("exec", Frame(path \o <<i>>, "start", 0), [k |-> cbk, p |-> t])
        ELSE ts[x]]

StepHandles(ids) == [i \in 1..Len(ids) |-> Handle("step", ids[i], 0)]

\* the callbacks of the given tasks are replaced (remove_done_callback,
\* add_done_callback): k = "" leaves them without one
Register(ts, ids, cb) ==
    [x \in TaskIds |-> IF x \in Range(ids) THEN [ts[x] EXCEPT !.cb = cb] ELSE ts[x]]

\* add_done_callback on a task that is already done schedules the callback
RECURSIVE DoneNow(_, _, _, _, _)
DoneNow(ts, ids, k, p, i) ==
    IF i > Len(ids) THEN <<>>
    ELSE (IF ts[ids[i]].st = "done" THEN <<Handle(k, ids[i], p)>> ELSE <<>>)
         \o DoneNow(ts, ids, k, p, i + 1)

\* the subsequence of ids whose tasks are (not) done
RECURSIVE Select(_, _, _, _)
Select(ts, ids, wantDone, i) ==
    IF i > Len(ids) THEN <<>>
    ELSE (IF (ts[ids[i]].st = "done") = wantDone THEN <<ids[i]>> ELSE <<>>)
         \o Select(ts, ids, wantDone, i + 1)

GatherFut(ids, retexc) ==
    [NoFut EXCEPT !.k = "gather", !.kids = ids, !.return_exceptions = retexc]

\* case 'parallel_wait', 1443-1445: gather wraps every subtask in a task and
\* the block awaits them all
ParallelWaitEnter(t) ==
    /\ Executing(t, "call", "parallel_wait")
    /\ LET f == Top(tasks[t])
           n == Len(TopTask(tasks[t]).tasks)
           ids == FreeIds(tasks, n, 1)
           T2 == Suspend(SetTop(tasks[t], [f EXCEPT !.kids = ids]), "gather", GatherFut(ids, FALSE))
       IN  /\ n > 0 /\ Len(ids) = n
           /\ ready' = ready \o StepHandles(ids)
           /\ tasks' = Collect(Spawn([tasks EXCEPT ![t] = T2], ids, f.path, t, "gather"),
                               ready', menu_state)
    /\ running' = 0
    /\ UNCHANGED <<state, heap>>
    /\ UNCHANGED Frame_Exec

\* the gather has a result: all children have ended, or the first exception
\* of a child, or CancelledError; the block returns or raises at once and
\* children that still run are left to themselves
ParallelWaitResume(t) ==
    /\ Executing(t, "resume", "parallel_wait")
    /\ LET v == tasks[t].flow.v
           T2 == IF v = "ok" THEN Leave(tasks[t], "ret", "None") ELSE Leave(tasks[t], "raise", v)
       IN  Continue(t, T2)
    /\ UNCHANGED <<state, heap>>
    /\ UNCHANGED Frame_Exec

\* case 'parallel_race', 1456-1461: one task per subtask, then
\* asyncio.wait(..., FIRST_COMPLETED)
ParallelRaceEnter(t) ==
    /\ Executing(t, "call", "parallel_race")
    /\ LET f == Top(tasks[t])
           n == Len(TopTask(tasks[t]).tasks)
           ids == FreeIds(tasks, n, 1)
           T2 == Suspend(SetTop(tasks[t], [f EXCEPT !.kids = ids]), "wait",
                         [NoFut EXCEPT !.k = "wait", !.kids = ids])
       IN  /\ n > 0 /\ Len(ids) = n
           /\ ready' = ready \o StepHandles(ids)
           /\ tasks' = Collect(Spawn([tasks EXCEPT ![t] = T2], ids, f.path, t, "wait"),
                               ready', menu_state)
    /\ running' = 0
    /\ UNCHANGED <<state, heap>>
    /\ UNCHANGED Frame_Exec

\* 1474-1476: every key of state that starts with the block's prefix goes
RaceCleanup(cur, rl) ==
    [k \in {x \in DOMAIN cur : ~IsPrefix(sub_index_label(rl), x)} |-> cur[k]]

\* a race that does not await the children it has cancelled
AwaitsLosers_Never(pend) == FALSE

\* 1477: await asyncio.gather(*pending, return_exceptions=True) suspends the
\* block until the cancelled children have ended; a gather of nothing is
\* done at once
AwaitsLosers(pend) == pend # <<>>

\* 1467-1477: wait has returned done and pending; the pending children are
\* cancelled, the block's cursor keys deleted, and the block awaits the
\* cancelled children (a gather of nothing is done at once)
RaceElse(t) ==
    LET f == Top(tasks[t])
        dn == Select(tasks, f.kids, TRUE, 1)
        pend == Select(tasks, f.kids, FALSE, 1)
        c == CancelAll(Register(tasks, f.kids, NoCb), ready, pend, 1)
        ts2 == Register(c.ts, pend, [k |-> "gather", p |-> t])
        f2 == [f EXCEPT !.done = Range(dn)]
    IN  /\ state' = [state EXCEPT !.cur = RaceCleanup(@, runtime_label(order, f.path))]
        /\ ready' = c.rdy
        /\ IF ~AwaitsLosers(pend)
           THEN /\ tasks' = Collect([ts2 EXCEPT ![t] = Goes(SetTop(tasks[t], f2), "first")],
                                    ready', menu_state)
                /\ UNCHANGED running
           ELSE /\ tasks' = Collect([ts2 EXCEPT ![t] =
                                 Suspend(SetTop(tasks[t], f2), "gather_else", GatherFut(pend, TRUE))],
                                    ready', menu_state)
                /\ running' = 0

\* 1462-1466: CancelledError at the wait; every child is cancelled and
\* awaited, then the cancellation is re-raised
RaceExcept(t) ==
    LET f == Top(tasks[t])
        c == CancelAll(Register(tasks, f.kids, NoCb), ready, f.kids, 1)
        ts2 == Register(c.ts, f.kids, [k |-> "gather", p |-> t])
    IN  /\ ready' = c.rdy \o DoneNow(ts2, f.kids, "gather", t, 1)
        /\ tasks' = Collect([ts2 EXCEPT ![t] =
                         Suspend(tasks[t], "gather_exc", GatherFut(f.kids, TRUE))],
                            ready', menu_state)
        /\ running' = 0
        /\ UNCHANGED state

\* the block is resumed at one of its three awaits
ParallelRaceResume(t) ==
    /\ Executing(t, "resume", "parallel_race")
    /\ LET f == Top(tasks[t])
           v == tasks[t].flow.v
       IN  IF f.pc = "wait" /\ v = "ok" THEN RaceElse(t)
           ELSE IF f.pc = "wait" THEN RaceExcept(t)
           ELSE IF f.pc = "gather_else" /\ v = "ok"
           THEN /\ Continue(t, Goes(tasks[t], "first"))
                /\ UNCHANGED state
           ELSE /\ Continue(t, Leave(tasks[t], "raise", "cancel"))
                /\ UNCHANGED state
    /\ UNCHANGED heap
    /\ UNCHANGED Frame_Exec

\* 1478-1479: first_task = done.pop(); await first_task - any of the done
\* children; its exception, if it has one, is raised
ParallelRaceFirst(t) ==
    /\ Executing(t, "first", "parallel_race")
    /\ \E d \in Top(tasks[t]).done :
         LET r == tasks[d].result
         IN  Continue(t, IF r = "ok" THEN Leave(tasks[t], "ret", "None")
                         ELSE Leave(tasks[t], "raise", IF r = "cancelled" THEN "cancel" ELSE "err"))
    /\ UNCHANGED <<state, heap>>
    /\ UNCHANGED Frame_Exec

\* the task's coroutine has returned or raised: the task is done and its
\* done-callbacks are scheduled
TaskFinish(t) ==
    /\ running = t
    /\ tasks[t].flow.m \in {"ret", "raise"}
    /\ Len(tasks[t].stack) = 0
    /\ LET fl == tasks[t].flow
           T2 == [tasks[t] EXCEPT
                    !.st = "done", !.flow = NoFlow,
                    !.result = IF fl.m = "ret" THEN "ok" ELSE IF fl.v = "cancel" THEN "cancelled" ELSE "err",
                    !.retval = IF fl.m = "ret" THEN fl.v ELSE ""]
       IN  /\ ready' = ready \o DoneHandles(tasks[t], t)
           /\ tasks' = Collect([tasks EXCEPT ![t] = T2], ready', menu_state)
    /\ running' = 0
    /\ UNCHANGED <<state, heap>>
    /\ UNCHANGED Frame_Exec

\* ------------------------------------------------------- the event loop
\* BaseEventLoop._run_once runs the handles that are ready when the iteration
\* starts; what they schedule runs in the next iteration
Head_(k) ==
    /\ running = 0 /\ main_pc = "await"
    /\ batch > 0
    /\ ready[1].k = k
    /\ batch' = batch - 1

\* Task.__step: the task at the head of the queue runs.  A task that was
\* never started begins its coroutine, or ends at once when a cancellation
\* is pending; a suspended task is resumed with the result of the future it
\* awaits, or with CancelledError when _must_cancel is set.
RunStep ==
    /\ Head_("step")
    /\ LET t == ready[1].t
           T == tasks[t]
           fresh == T.fut.k = ""
           T2 == IF fresh /\ T.must_cancel
                 THEN [T EXCEPT !.stack = <<>>, !.must_cancel = FALSE,
                                !.flow = [NoFlow EXCEPT !.m = "raise", !.v = "cancel"]]
                 ELSE IF fresh
                 THEN [T EXCEPT !.stack[1].ins = IF T.kind = "exec" THEN state.inserts ELSE 0,
                                !.flow = [NoFlow EXCEPT !.m = "call"]]
                 ELSE [T EXCEPT !.fut = NoFut, !.must_cancel = FALSE,
                                !.flow = [NoFlow EXCEPT !.m = "resume", !.n = T.fut.n,
                                             !.v = IF T.must_cancel THEN "cancel" ELSE T.fut.res]]
       IN  /\ T.st = "pending"
           /\ ready' = Tail(ready)
           /\ tasks' = Collect([tasks EXCEPT ![t] = T2], ready', menu_state)
           /\ running' = t
    /\ UNCHANGED <<run, pure, state, heap, save_states, disk, menu_state, killme, main_pc, budget, hist>>

\* the gather future of task p after the done-callback of its child c
\* (asyncio.tasks.gather._done_callback)
GatherAfter(F, child) ==
    LET n == F.nfin + 1
        all == n = Len(F.kids)
    IN  IF ~F.return_exceptions /\ child.result = "cancelled"
        THEN [F EXCEPT !.nfin = n, !.done = TRUE, !.res = "cancel"]
        ELSE IF ~F.return_exceptions /\ child.result = "err"
        THEN [F EXCEPT !.nfin = n, !.done = TRUE, !.res = "err"]
        ELSE IF all
        THEN [F EXCEPT !.nfin = n, !.done = TRUE,
                       !.res = IF F.cancel_requested THEN "cancel" ELSE "ok"]
        ELSE [F EXCEPT !.nfin = n]

\* does task p (still) await a future of kind k over child c that is not done
Awaits(p, k, c) ==
    /\ p \in TaskIds
    /\ tasks[p].st = "pending"
    /\ tasks[p].fut.k = k
    /\ ~tasks[p].fut.done
    /\ c \in Range(tasks[p].fut.kids)

\* gather's done-callback for one child: nothing when the gather is done
GatherCallback ==
    /\ Head_("gather")
    /\ LET c == ready[1].t
           p == ready[1].p
           F2 == GatherAfter(tasks[p].fut, tasks[c])
       IN  IF Awaits(p, "gather", c)
           THEN /\ ready' = IF F2.done THEN Append(Tail(ready), Handle("step", p, 0)) ELSE Tail(ready)
                /\ tasks' = Collect([tasks EXCEPT ![p].fut = F2], ready', menu_state)
           ELSE /\ ready' = Tail(ready)
                /\ tasks' = Collect(tasks, ready', menu_state)
    /\ UNCHANGED <<run, pure, state, heap, save_states, disk, menu_state, killme, running, main_pc, budget, hist>>

\* wait's _on_completion for one child: with FIRST_COMPLETED the first call
\* sets the waiter, the later ones find it done
WaitCallback ==
    /\ Head_("wait")
    /\ LET c == ready[1].t
           p == ready[1].p
       IN  IF Awaits(p, "wait", c)
           THEN /\ ready' = Append(Tail(ready), Handle("step", p, 0))
                /\ tasks' = Collect([tasks EXCEPT ![p].fut.done = TRUE, ![p].fut.res = "ok"],
                                    ready', menu_state)
           ELSE /\ ready' = Tail(ready)
                /\ tasks' = Collect(tasks, ready', menu_state)
    /\ UNCHANGED <<run, pure, state, heap, save_states, disk, menu_state, killme, running, main_pc, budget, hist>>

\* --------------------------------------------------- the outside world
\* between two iterations the loop polls: signals, key presses and due
\* timers enter the queue here
Idle == running = 0 /\ main_pc = "await" /\ batch = 0 /\ UNCHANGED batch

\* the next iteration starts with the handles that are ready now
NextIteration ==
    /\ running = 0 /\ main_pc = "await" /\ batch = 0
    /\ ready # <<>>
    /\ batch' = Len(ready)
    /\ UNCHANGED <<run, pure, state, heap, save_states, disk, menu_state, killme, tasks,
                   ready, running, main_pc, budget, hist>>

\* the timer of an asyncio.sleep is due: its handle becomes ready
SleepFires(t) ==
    /\ Idle
    /\ tasks[t].st = "pending" /\ tasks[t].fut.k = "sleep"
    /\ ~tasks[t].fut.done /\ tasks[t].fut.n = 0
    /\ tasks' = [tasks EXCEPT ![t].fut.n = 1]
    /\ ready' = Append(ready, Handle("timer", t, 0))
    /\ UNCHANGED <<run, pure, state, heap, save_states, disk, menu_state, killme, running, main_pc, budget, hist>>

\* the timer's handle runs (futures._set_result_unless_cancelled): the
\* sleeping task is woken, unless its sleep was cancelled meanwhile
TimerCallback ==
    /\ Head_("timer")
    /\ LET t == ready[1].t
       IN  IF tasks[t].st = "pending" /\ tasks[t].fut.k = "sleep" /\ ~tasks[t].fut.done
           THEN /\ ready' = Append(Tail(ready), Handle("step", t, 0))
                /\ tasks' = Collect([tasks EXCEPT ![t].fut.done = TRUE, ![t].fut.res = "ok"],
                                    ready', menu_state)
           ELSE /\ ready' = Tail(ready)
                /\ tasks' = Collect(tasks, ready', menu_state)
    /\ UNCHANGED <<run, pure, state, heap, save_states, disk, menu_state, killme, running, main_pc, budget, hist>>

\* SIGINT arrives or Escape is pressed: toggle_menu is queued
ToggleArrives ==
    /\ Idle
    /\ budget > 0
    /\ budget' = budget - 1
    /\ ready' = Append(ready, Handle("toggle", 0, 0))
    /\ UNCHANGED <<run, pure, state, heap, save_states, disk, menu_state, killme, tasks, running, main_pc, hist>>

\* Ctrl-D is pressed: the c-d key binding is queued
CtrlDArrives ==
    /\ Idle
    /\ budget > 0
    /\ budget' = budget - 1
    /\ ready' = Append(ready, Handle("ctrl_d", 0, 0))
    /\ UNCHANGED <<run, pure, state, heap, save_states, disk, menu_state, killme, tasks, running, main_pc, hist>>

\* toggle_menu, 1877-1880
toggle_menu ==
    /\ Head_("toggle")
    /\ LET t == menu_state.async_task
           c == IF t # 0 THEN CancelTask(tasks, Tail(ready), t)
                ELSE [ts |-> tasks, rdy |-> Tail(ready), ret |-> FALSE]
       IN  /\ ready' = c.rdy
           /\ menu_state' = [menu_state EXCEPT !.is_menu_open = ~@]
           /\ tasks' = Collect(c.ts, ready', menu_state')
    /\ UNCHANGED <<run, pure, state, heap, save_states, disk, killme, running, main_pc, budget, hist>>

\* the c-d key binding, 120-126
CtrlD ==
    /\ Head_("ctrl_d")
    /\ LET t == menu_state.async_task
           c == IF t # 0 THEN CancelTask(tasks, Tail(ready), t)
                ELSE [ts |-> tasks, rdy |-> Tail(ready), ret |-> FALSE]
       IN  /\ ready' = c.rdy
           /\ tasks' = Collect(c.ts, ready', menu_state)
    /\ killme' = TRUE
    /\ UNCHANGED <<run, pure, state, heap, save_states, disk, menu_state, running, main_pc, budget, hist>>

\* ------------------------------------------------------------ main_menu
\* the inserts dictionaries that a frame of some coroutine refers to
FrameRefs(ts) ==
    UNION {{ts[t].stack[i].ins : i \in 1..Len(ts[t].stack)} : t \in TaskIds} \ {0}

\* every inserts dictionary something refers to
ObjRefs(st, ss, ts) ==
    ({st.inserts} \cup {ss[x].inserts : x \in DOMAIN ss} \cup FrameRefs(ts)) \ {0}

\* the n smallest members of a set of object ids, in increasing order
RECURSIVE AllocSeq(_, _)
AllocSeq(free, n) ==
    IF n = 0 \/ free = {} THEN <<>>
    ELSE <<SetMin(free)>> \o AllocSeq(free \ {SetMin(free)}, n - 1)

\* dictionaries nothing refers to are gone
Gc(h, refs) == [o \in ObjIds |-> IF o \in refs THEN h[o] ELSE EmptyDict]

\* a snapshot by value, as json writes it and deepcopy copies it
Deref(h, snap) == [snap EXCEPT !.inserts = h[snap.inserts]]

Prompt == [NoFut EXCEPT !.k = "input"]

MenuAt(t, pc) ==
    /\ running = t
    /\ tasks[t].kind = "menu"
    /\ tasks[t].flow.m = "resume"
    /\ tasks[t].flow.v # "cancel"
    /\ Top(tasks[t]).pc = pc

Frame_Menu == <<run, pure, menu_state, main_pc, budget, batch>>

\* the user answers the prompt the menu shows: an option of the main menu,
\* a slot, or the label of a save state
UserSelects(t, v, n) ==
    /\ Idle
    /\ tasks[t].st = "pending" /\ tasks[t].kind = "menu"
    /\ tasks[t].fut.k = "input" /\ ~tasks[t].fut.done
    /\ LET pc == Top(tasks[t]).pc
       IN  \/ pc = "choose" /\ v \in {"save", "load", "reload", "quit"} /\ n = 0 /\ budget > 0
           \/ pc \in {"save_slot", "load_slot"} /\ v = "ok" /\ n \in Slots
           \/ pc = "save_label" /\ v = "ok" /\ n = 0
    /\ budget' = IF v \in {"save", "load", "reload", "quit"} THEN budget - 1 ELSE budget
    /\ tasks' = [tasks EXCEPT ![t].fut.done = TRUE, ![t].fut.res = v, ![t].fut.n = n]
    /\ ready' = Append(ready, Handle("step", t, 0))
    /\ UNCHANGED <<run, pure, state, heap, save_states, disk, menu_state, killme, running, main_pc, hist>>

\* main_menu starts: the options are shown (1797-1800)
MenuStart(t) ==
    /\ running = t /\ tasks[t].kind = "menu" /\ tasks[t].flow.m = "call"
    /\ Yield(t, Suspend(tasks[t], "choose", Prompt))
    /\ UNCHANGED <<state, heap, save_states, disk, killme, hist>>
    /\ UNCHANGED Frame_Menu

\* every prompt of the menu re-raises CancelledError, and main_menu catches
\* nothing
MenuCancelled(t) ==
    /\ running = t /\ tasks[t].kind = "menu"
    /\ tasks[t].flow.m = "resume" /\ tasks[t].flow.v = "cancel"
    /\ Continue(t, Leave(tasks[t], "raise", "cancel"))
    /\ UNCHANGED <<state, heap, save_states, disk, killme, hist>>
    /\ UNCHANGED Frame_Menu

\* "Save State" and "Load State" ask for a slot (1812, 1834)
MenuChoose(t) ==
    /\ MenuAt(t, "choose")
    /\ tasks[t].flow.v \in {"save", "load"}
    /\ Yield(t, Suspend(tasks[t], IF tasks[t].flow.v = "save" THEN "save_slot" ELSE "load_slot", Prompt))
    /\ UNCHANGED <<state, heap, save_states, disk, killme, hist>>
    /\ UNCHANGED Frame_Menu

\* the slot to save to is chosen: the label is asked for (1814)
MenuSaveSlot(t) ==
    /\ MenuAt(t, "save_slot")
    /\ Yield(t, Suspend(SetTop(tasks[t], [Top(tasks[t]) EXCEPT !.slot = tasks[t].flow.n]),
                        "save_label", Prompt))
    /\ UNCHANGED <<state, heap, save_states, disk, killme, hist>>
    /\ UNCHANGED Frame_Menu
\* the keys ARG<n> that async_main fills from the command line
ArgKeys == {"ARG1"}

\* {k: v for k, v in inserts.items() if k is an ARG<n> key}
program_args(inserts) == [k \in (DOMAIN inserts) \cap ArgKeys |-> inserts[k]]

\* dict.update
Update(d, e) == [k \in (DOMAIN d) \cup (DOMAIN e) |-> IF k \in DOMAIN e THEN e[k] ELSE d[k]]

\* program['default_state'] of the program files above, with the output
\* load() adds
default_state ==
    [inserts |-> EmptyDict, output |-> <<>>, order_index |-> 1, cur |-> EmptyDict, label |-> <<>>]

\* the label the user gives a save state
SaveLabel == <<"s">>

NoSnap == [default_state EXCEPT !.order_index = 0]

\* "Save State", 1815-1819: the slot gets a deep copy of the live state and
\* the given label, and save_states is written to the program file
MenuSave(t) ==
    /\ MenuAt(t, "save_label")
    /\ LET n == Top(tasks[t]).slot
           others == [x \in (DOMAIN save_states) \ {n} |-> save_states[x]]
           free == ObjIds \ ObjRefs(state, others, tasks)
           o == SetMin(free)
           ss2 == Put(save_states, n, [state EXCEPT !.inserts = o, !.label = SaveLabel])
           h2 == Gc([heap EXCEPT ![o] = heap[state.inserts]], ObjRefs(state, ss2, tasks))
       IN  /\ free # {}
           /\ save_states' = ss2
           /\ heap' = h2
           /\ disk' = [x \in DOMAIN ss2 |-> Deref(h2, ss2[x])]
           /\ hist' = [hist EXCEPT
                         !.faithful = @ /\ hist.session = "open",
                         !.session = "saved",
                         !.slot = n,
                         !.loaded_slot = IF @ = n THEN 0 ELSE @]
    /\ Yield(t, Suspend(tasks[t], "choose", Prompt))
    /\ UNCHANGED <<state, killme>>
    /\ UNCHANGED Frame_Menu

\* "Load State", 1835-1841: an empty slot is refused; otherwise
\* state.clear(); state.update(slot_state) - the live state takes the values
\* of the slot's keys, so it refers to the slot's own inserts dictionary
MenuLoad(t) ==
    /\ MenuAt(t, "load_slot")
    /\ LET n == tasks[t].flow.n
       IN  IF n \notin DOMAIN save_states
           THEN UNCHANGED <<state, heap, hist>>
           ELSE /\ state' = save_states[n]
                /\ heap' = Gc(heap, ObjRefs(state', save_states, tasks))
                /\ hist' = [hist EXCEPT
                              !.faithful = @ /\ hist.session = "saved" /\ hist.slot = n,
                              !.session = "loaded",
                              !.cancelled_at = 0,
                              !.loaded_slot = n,
                              !.loaded_snap = Deref(heap, save_states[n]),
                              !.args_before = program_args(heap[state.inserts]),
                              !.args_after = heap[save_states[n].inserts]]
    /\ Yield(t, Suspend(tasks[t], "choose", Prompt))
    /\ UNCHANGED <<save_states, disk, killme>>
    /\ UNCHANGED Frame_Menu

\* the position of slot x among the slots of the file
Rank(d, x) == Cardinality({y \in DOMAIN d : y <= x})

\* "Reload and Restart", 1847-1855: the program is read from the file again
\* and the state becomes a deep copy of its default state plus the ARG<n>
\* keys of the live inserts
MenuReload(t) ==
    /\ MenuAt(t, "choose")
    /\ tasks[t].flow.v = "reload"
    /\ LET args == program_args(heap[state.inserts])
           count == 1 + Cardinality(DOMAIN disk)
           ids == AllocSeq(ObjIds \ FrameRefs(tasks), count)
           st2 == [default_state EXCEPT !.inserts = ids[1]]
           ss2 == [x \in DOMAIN disk |-> [disk[x] EXCEPT !.inserts = ids[1 + Rank(disk, x)]]]
           h2 == [o \in ObjIds |->
                    IF o = ids[1] THEN Update(default_state.inserts, args)
                    ELSE IF \E x \in DOMAIN disk : o = ids[1 + Rank(disk, x)]
                    THEN disk[CHOOSE x \in DOMAIN disk : o = ids[1 + Rank(disk, x)]].inserts
                    ELSE heap[o]]
       IN  /\ Len(ids) = count
           /\ state' = st2
           /\ save_states' = ss2
           /\ heap' = Gc(h2, ObjRefs(st2, ss2, tasks))
           /\ hist' = [hist EXCEPT !.faithful = FALSE, !.session = "other",
                                   !.cancelled_at = 0, !.loaded_slot = 0]
    /\ Yield(t, Suspend(tasks[t], "choose", Prompt))
    /\ UNCHANGED <<disk, killme>>
    /\ UNCHANGED Frame_Menu

\* "Quit", 1865-1870: killme is set and the task main awaits - the menu task
\* itself - is cancelled; the cancellation is delivered at its next await,
\* the prompt of the next round of the menu
MenuQuit(t) ==
    /\ MenuAt(t, "choose")
    /\ tasks[t].flow.v = "quit"
    /\ killme' = TRUE
    /\ LET a == menu_state.async_task
           c == IF a # 0 THEN CancelTask(tasks, ready, a)
                ELSE [ts |-> tasks, rdy |-> ready, ret |-> FALSE]
           T == c.ts[t]
           T2 == IF T.must_cancel
                 THEN [Suspend(T, "choose", [Prompt EXCEPT !.done = TRUE, !.res = "cancel"])
                          EXCEPT !.must_cancel = FALSE]
                 ELSE Suspend(T, "choose", Prompt)
       IN  /\ ready' = IF T.must_cancel THEN Append(c.rdy, Handle("step", t, 0)) ELSE c.rdy
           /\ tasks' = Collect([c.ts EXCEPT ![t] = T2], ready', menu_state)
    /\ running' = 0
    /\ UNCHANGED <<state, heap, save_states, disk, hist>>
    /\ UNCHANGED Frame_Menu

\* ----------------------------------------------------------- async_main
\* 2130-2135: the awaited task returned None or a goto target - a target
\* without a label makes min() raise ValueError
MainRaises(T) ==
    \/ T.result = "err"
    \/ T.result = "ok" /\ T.retval # "None" /\ LabelIndices(order, T.retval) = {}

\* a main loop that counts a cancelled task as one that returned None
order_index_after_Cancelled(oi, T) ==
    IF T.result = "err" THEN oi
    ELSE IF T.retval \in {"None", ""} THEN oi + 1
    ELSE 2 + SetMin(LabelIndices(order, T.retval))

\* 2121-2138: state['order_index'] after the await - one more after None, one
\* past the label after a goto, the same after CancelledError
order_index_after(oi, T) ==
    IF T.result # "ok" THEN oi
    ELSE IF T.retval = "None" THEN oi + 1
    ELSE 2 + SetMin(LabelIndices(order, T.retval))

\* a main loop that never looks at killme
Terminate_Never == FALSE

\* 2140-2142: if killme: break
Terminate == killme

\* 2106: while state['order_index'] <= len(program['order'])
Goes_On(oi) == oi <= Len(order)

\* 2111-2119: the menu task or the task at order_index is created and
\* becomes menu_state['async_task']
Launch(ts, rdy, ms, oi) ==
    LET id == FreeIds(ts, 1, 1)[1]
        T == IF ms.is_menu_open
             THEN NewTask("menu", Frame(<<>>, "start", 0), [k |-> "main", p |-> 0])
             ELSE NewTask("exec", Frame(<<oi>>, "start", 0), [k |-> "main", p |-> 0])
        ms2 == [ms EXCEPT !.async_task = id]
        rdy2 == Append(rdy, Handle("step", id, 0))
    IN  [ts |-> Collect([ts EXCEPT ![id] = T], rdy2, ms2), rdy |-> rdy2, ms |-> ms2]

\* async_main up to its first await on a task (2085-2122)
MainStart ==
    /\ main_pc = "start"
    /\ IF Len(order) > 0 /\ Goes_On(state.order_index)
       THEN LET l == Launch(tasks, ready, menu_state, state.order_index)
            IN  /\ tasks' = l.ts
                /\ ready' = l.rdy
                /\ menu_state' = l.ms
                /\ main_pc' = "await"
       ELSE /\ main_pc' = "exited"
            /\ UNCHANGED <<tasks, ready, menu_state>>
    /\ UNCHANGED <<run, pure, state, heap, save_states, disk, killme, running, budget, hist, batch>>

\* what the properties remember of a wakeup of async_main: T is the task
\* that ended, oi2 the new order_index, launches whether a task is launched
HistAfter(T, oi2, launches) ==
    LET cancelled == T.result = "cancelled"
        exec == T.kind = "exec"
        opens == launches /\ menu_state.is_menu_open
        resumes == launches /\ ~menu_state.is_menu_open
        ca2 == IF exec /\ cancelled THEN state.order_index
               ELSE IF exec THEN 0 ELSE hist.cancelled_at
    IN  [hist EXCEPT
           !.session = IF exec /\ cancelled /\ opens /\ hist.session = "none" THEN "open"
                       ELSE IF ~exec /\ resumes /\ hist.session = "loaded" THEN "none"
                       ELSE IF exec /\ ~cancelled /\ ~opens THEN @
                       ELSE "other",
           !.faithful = /\ @
                        /\ exec /\ cancelled => opens /\ hist.session = "none"
                        /\ exec /\ ~cancelled => ~opens
                        /\ ~exec => resumes /\ hist.session = "loaded",
           !.interrupts = IF ~exec /\ resumes /\ hist.session = "loaded" THEN 1 ELSE @,
           !.cancelled_at = ca2,
           !.relaunch_from = IF resumes THEN ca2 ELSE @,
           !.relaunch_to = IF resumes THEN oi2 ELSE @,
           !.via_menu = IF resumes THEN ~exec ELSE @,
           !.advanced = @ \/ ((cancelled \/ ~exec) /\ oi2 # state.order_index),
           !.launched_after_kill = @ \/ (launches /\ killme)]

\* 2122-2142: the awaited task is done - the result moves order_index, an
\* exception other than CancelledError ends async_main, killme breaks the
\* loop, and otherwise the next task or the menu is launched
MainResume ==
    /\ Head_("main")
    /\ ready[1].t = menu_state.async_task
    /\ LET T == tasks[ready[1].t]
           oi2 == order_index_after(state.order_index, T)
           l == Launch(tasks, Tail(ready), menu_state, oi2)
       IN  IF MainRaises(T)
           THEN /\ main_pc' = "crashed"
                /\ ready' = Tail(ready)
                /\ tasks' = Collect(tasks, ready', menu_state)
                /\ UNCHANGED <<state, menu_state, hist>>
           ELSE /\ state' = [state EXCEPT !.order_index = oi2]
                /\ IF Terminate \/ ~Goes_On(oi2)
                   THEN /\ main_pc' = "exited"
                        /\ ready' = Tail(ready)
                        /\ tasks' = Collect(tasks, ready', menu_state)
                        /\ hist' = HistAfter(T, oi2, FALSE)
                        /\ UNCHANGED menu_state
                   ELSE /\ FreeIds(tasks, 1, 1) # <<>>
                        /\ main_pc' = "await"
                        /\ ready' = l.rdy
                        /\ tasks' = l.ts
                        /\ menu_state' = l.ms
                        /\ hist' = HistAfter(T, oi2, TRUE)
    /\ UNCHANGED <<run, pure, heap, save_states, disk, killme, running, budget>>

\* ------------------------------------------------------- the whole system
NoHist ==
    [session |-> "none", slot |-> 0, faithful |-> TRUE, interrupts |-> 0,
     loaded_slot |-> 0, loaded_snap |-> NoSnap,
     args_before |-> EmptyDict, args_after |-> EmptyDict,
     cancelled_at |-> 0, relaunch_from |-> 0, relaunch_to |-> 0,
     via_menu |-> FALSE, advanced |-> FALSE, launched_after_kill |-> FALSE]

\* load(filepath) and the ARG<n> keys (2088-2096): the live inserts are
\* dictionary 1, the snapshots of the file follow
Init ==
    /\ run \in Runs
    /\ state = [default_state EXCEPT !.inserts = 1]
    /\ heap = [o \in ObjIds |->
                 IF o = 1 THEN Update(default_state.inserts, StartInserts(run.args))
                 ELSE IF o - 1 \in DOMAIN run.saves
                 THEN run.saves[o - 1].inserts
                 ELSE EmptyDict]
    /\ save_states = [x \in DOMAIN run.saves |-> [run.saves[x] EXCEPT !.inserts = x + 1]]
    /\ disk = run.saves
    /\ menu_state = [is_menu_open |-> FALSE, async_task |-> 0]
    /\ killme = FALSE
    /\ tasks = [t \in TaskIds |-> FreeTask]
    /\ ready = <<>>
    /\ batch = 0
    /\ running = 0
    /\ main_pc = "start"
    /\ budget = run.keys
    /\ hist = NoHist
    /\ PureAtRest

\* one step of the coroutine that is running
Step(t) ==
    \/ ExecInterpolationFault(t)
    \/ ExecSet(t)
    \/ ExecPrint(t)
    \/ ExecLabel(t)
    \/ ExecGoto(t)
    \/ ExecSleep(t)
    \/ ResumeSleep(t)
    \/ SerialEnter(t)
    \/ SerialLoop(t)
    \/ SerialReturn(t)
    \/ ForEnter(t)
    \/ ForOuter(t)
    \/ ForInner(t)
    \/ ForReturn(t)
    \/ Propagate(t)
    \/ ParallelWaitEnter(t)
    \/ ParallelWaitResume(t)
    \/ ParallelRaceEnter(t)
    \/ ParallelRaceResume(t)
    \/ ParallelRaceFirst(t)
    \/ TaskFinish(t)
    \/ MenuStart(t)
    \/ MenuCancelled(t)
    \/ MenuChoose(t)
    \/ MenuSaveSlot(t)
    \/ MenuSave(t)
    \/ MenuLoad(t)
    \/ MenuReload(t)
    \/ MenuQuit(t)

Next ==
    \/ MainStart
    \/ MainResume
    \/ NextIteration
    \/ RunStep
    \/ TimerCallback
    \/ GatherCallback
    \/ WaitCallback
    \/ toggle_menu
    \/ CtrlD
    \/ ToggleArrives
    \/ CtrlDArrives
    \/ \E t \in TaskIds : SleepFires(t)
    \/ \E t \in TaskIds : \E v \in {"save", "load", "reload", "quit", "ok"} :
          \E n \in {0} \cup Slots : UserSelects(t, v, n)
    \/ \E t \in TaskIds : Step(t)

Spec == Init /\ [][Next]_vars

\* ------------------------------------------------- the uninterrupted run
\* What execute_task does to (inserts, output) when nothing interrupts it,
\* for the tasks that run in one coroutine (set, print, label, goto, sleep,
\* serial, for); ret is the value returned, "err" when it raises.  The
\* programs above have no backward goto, so the recursion ends.
RECURSIVE RefExec(_, _, _)
RECURSIVE RefSeq(_, _, _, _)
RECURSIVE RefFor(_, _, _, _)
RefExec(path, ins, out) ==
    LET task == TaskAt(order, path)
        same == [ins |-> ins, out |-> out, ret |-> "None"]
    IN  IF recursive_interpolate_raises(ins, task) THEN [same EXCEPT !.ret = "err"]
        ELSE IF task.cmd = "set"
        THEN [same EXCEPT !.ins = Put(ins, task.output_name, interpolate_inserts(ins, task.item))]
        ELSE IF task.cmd = "print"
        THEN [same EXCEPT !.out = out \o interpolate_inserts(ins, task.text)]
        ELSE IF task.cmd = "goto"
        THEN [same EXCEPT !.ret = IF task.name # "CONTINUE" THEN task.name ELSE "None"]
        ELSE IF task.cmd = "serial" THEN RefSeq(path, 1, ins, out)
        ELSE IF task.cmd = "for"
        THEN IF Cardinality({Len(task.name_list_map[i].list) : i \in 1..Len(task.name_list_map)}) # 1
             THEN [same EXCEPT !.ret = "err"]
             ELSE RefFor(path, 1, ins, out)
        ELSE same

\* the body of the serial or for task at path, from subtask i on
RefSeq(path, i, ins, out) ==
    LET body == TaskAt(order, path).tasks
        r == RefExec(path \o <<i>>, ins, out)
    IN  IF i > Len(body) THEN [ins |-> ins, out |-> out, ret |-> "None"]
        ELSE IF r.ret = "err" THEN r
        ELSE IF r.ret = "None" THEN RefSeq(path, i + 1, r.ins, r.out)
        ELSE IF LabelIndices(body, r.ret) = {} THEN [r EXCEPT !.ret = "err"]
        ELSE RefSeq(path, 2 + SetMin(LabelIndices(body, r.ret)), r.ins, r.out)

\* the iterations of the for task at path, from iteration n on
RefFor(path, n, ins, out) ==
    LET nlm == TaskAt(order, path).name_list_map
        r == RefSeq(path, 1, BindItems(ins, nlm, n, 1), out)
    IN  IF n > Len(nlm[1].list) THEN [ins |-> ins, out |-> out, ret |-> "None"]
        ELSE IF r.ret = "err" THEN r
        ELSE RefFor(path, n + 1, r.ins, r.out)

\* the loop of async_main from order_index oi on
RECURSIVE RefMain(_, _, _)
RefMain(oi, ins, out) ==
    LET r == RefExec(<<oi>>, ins, out)
    IN  IF oi > Len(order) THEN [inserts |-> ins, output |-> out, order_index |-> oi, end |-> "exited"]
        ELSE IF r.ret = "err" \/ (r.ret # "None" /\ LabelIndices(order, r.ret) = {})
        THEN [inserts |-> r.ins, output |-> r.out, order_index |-> oi, end |-> "crashed"]
        ELSE IF r.ret = "None" THEN RefMain(oi + 1, r.ins, r.out)
        ELSE RefMain(2 + SetMin(LabelIndices(order, r.ret)), r.ins, r.out)

\* the end of the uninterrupted run of this program with these arguments
Reference == RefMain(1, Update(default_state.inserts, StartInserts(run.args)), <<>>)

\* no parallel block anywhere in the program
RECURSIVE SequentialTask(_)
SequentialTask(task) ==
    /\ task.cmd \notin {"parallel_wait", "parallel_race"}
    /\ \A i \in 1..Len(task.tasks) : SequentialTask(task.tasks[i])

Sequential == \A i \in 1..Len(order) : SequentialTask(order[i])

\* the final state (inserts, output, order_index) and how the run ended
Final ==
    [inserts |-> heap[state.inserts], output |-> state.output,
     order_index |-> state.order_index, end |-> main_pc]

\* a run that no key press and no signal interrupted
Uninterrupted == budget = run.keys

\* The reference agrees with the step-by-step model on every uninterrupted
\* run of a sequential program.
ReferenceAgrees ==
    (Sequential /\ Uninterrupted /\ main_pc \in {"exited", "crashed"}) => Final = Reference

ReferenceAgrees_witness ==
    Sequential /\ Uninterrupted /\ main_pc = "exited" /\ state.output # <<>>

\* ------------------------------------------------------------ properties
\* C1 - serial resumability: when the top-level task was cancelled inside a
\* serial or for body, the state saved to a slot, that slot loaded and the
\* menu closed, the state at program end (inserts, output, order_index)
\* is that of the uninterrupted run.
C1_Resumable ==
    (/\ Sequential
     /\ main_pc = "exited"
     /\ ~killme
     /\ hist.faithful
     /\ hist.interrupts >= 1
     /\ hist.session = "none") => Final = Reference

\* task t has just left a block of the given kind: it returned (m = "ret")
\* or raised (m = "raise")
Left(t, m, cmd) ==
    /\ tasks[t].st = "pending"
    /\ tasks[t].flow.m = m
    /\ tasks[t].flow.from # <<>>
    /\ TaskAt(order, tasks[t].flow.from).cmd = cmd

Kids(t) == Range(tasks[t].flow.kids)

\* C2 - parallel-race cleanup: when parallel_race returns normally, state
\* holds no key that starts with order_index/<runtime label of the block>.
C2_RaceCleansUp ==
    \A t \in TaskIds : Left(t, "ret", "parallel_race") =>
        \A k \in DOMAIN state.cur :
            ~IsPrefix(sub_index_label(runtime_label(order, tasks[t].flow.from)), k)

\* C3 - only the winner's effects are kept: when parallel_race returns, an
\* insert written by a child that was cancelled is not in state.inserts,
\* unless a child that completed wrote it too.
C3_OnlyWinnerKept ==
    \A t \in TaskIds : Left(t, "ret", "parallel_race") =>
        \A c \in Kids(t) : tasks[c].result = "cancelled" =>
            \A k \in tasks[c].wrote : k \in DOMAIN heap[state.inserts] =>
                \E w \in Kids(t) : tasks[w].result = "ok" /\ k \in tasks[w].wrote

\* C4 - parallel_race returns only after its losers have unwound: when the
\* block returns, every task it created for a child is done, so none of
\* them takes a step afterwards.
C4_LosersUnwound ==
    \A t \in TaskIds : Left(t, "ret", "parallel_race") =>
        \A c \in Kids(t) : tasks[c].st = "done"

\* a race has returned after cancelling a loser
C4_witness ==
    \E t \in TaskIds :
        /\ Left(t, "ret", "parallel_race")
        /\ \E c \in Kids(t) : tasks[c].st = "done" /\ tasks[c].result = "cancelled"

\* C5 - parallel_wait returns or raises only after every child has
\* terminated: when the block leaves, every task it created is done.
C5_WaitsForAll ==
    \A t \in TaskIds :
        (Left(t, "ret", "parallel_wait") \/ Left(t, "raise", "parallel_wait")) =>
            \A c \in Kids(t) : tasks[c].st = "done"

\* C6 - a cancellation of the top-level task reaches every pending child
\* before the main loop observes it: while the main loop awaits the menu
\* task, no execute_task task is pending.
C6_Quiescent ==
    (/\ main_pc = "await"
     /\ menu_state.async_task # 0
     /\ tasks[menu_state.async_task].kind = "menu") =>
        \A t \in TaskIds : tasks[t].kind = "exec" => tasks[t].st # "pending"

\* C7 - Load State takes a deep copy: as long as the slot that was loaded is
\* not saved to again, it holds the snapshot it held when it was loaded.
C7_LoadCopies ==
    hist.loaded_slot # 0 =>
        /\ hist.loaded_slot \in DOMAIN save_states
        /\ Deref(heap, save_states[hist.loaded_slot]) = hist.loaded_snap

\* C8 - Load State preserves the command line: every ARG<n> key of the
\* inserts before the last load is in the inserts after it, with its value.
C8_ArgsKept ==
    \A k \in DOMAIN hist.args_before :
        k \in DOMAIN hist.args_after /\ hist.args_after[k] = hist.args_before[k]

\* C9 - a cancelled top-level task and the menu task leave order_index as it
\* is, and the task launched when the menu is closed without a load or a
\* reload is the task at the order_index that was cancelled.
C9_SameIndex ==
    /\ ~hist.advanced
    /\ hist.relaunch_from # 0 => hist.relaunch_to = hist.relaunch_from

\* the menu was closed and the cancelled task launched again, its nested
\* cursor still in state
C9_witness ==
    /\ hist.via_menu
    /\ hist.relaunch_from # 0
    /\ hist.relaunch_to = hist.relaunch_from
    /\ DOMAIN state.cur # {}
    /\ main_pc = "await"
    /\ tasks[menu_state.async_task].kind = "exec"

\* C10 - once killme is set the main loop launches nothing: it awaits the
\* task it has cancelled, and exits when that task has ended.
C10_ExitsOnKill ==
    killme =>
        /\ ~hist.launched_after_kill
        /\ main_pc = "await" =>
              \/ tasks[menu_state.async_task].st = "pending"
              \/ \E i \in 1..Len(ready) : ready[i].k = "main"

\* killme was set, the task was cancelled and the loop has exited
C10_witness ==
    /\ killme
    /\ main_pc = "exited"
    /\ tasks[menu_state.async_task].result = "cancelled"

\* C11 - a task that raises anything but a cancellation does not end the
\* main loop: async_main goes on, so that the menu can still be opened.
C11_LoopSurvivesError ==
    main_pc # "crashed"

\* ==================================================== validate_program
\* The programs of this part may name a task of a body by a simple insert
\* key ('{t}' in a tasks list) and may hold named tasks; run_task keeps the
\* name of the task it runs in the field name.
Unknown(l)    == [Blank EXCEPT !.cmd = "unknown", !.line = l]
RunTask(l, n) == [Blank EXCEPT !.cmd = "run_task", !.line = l, !.name = n]

\* one entry of named_tasks
Named(n, task) == [name |-> n, task |-> task]

\* get_simple_insertkey(subtask) on an element of a tasks list: the element
\* is a string '{key}', not a task
IsKey(x) == "ref" \in DOMAIN x

\* the cases of the match statement of validate_task and of execute_task,
\* which name the same commands (chat must have messages and output_name in
\* both; every task of the model carries the fields of its command)
TaskKinds ==
    {"list_join", "list_concat", "list_append", "list_remove", "list_index",
     "list_slice", "user_choice", "user_input", "await_insert", "run_task",
     "parallel_wait", "parallel_race", "serial", "label", "set", "unescape",
     "print", "sleep", "clear", "goto", "goto_map", "replace_map", "for",
     "show_inserts", "random_choice", "delete", "delete_except", "math", "chat"}

\* program['order'].copy() + list(program['named_tasks'].values())
TopTasks(program) ==
    program.order \o [i \in 1..Len(program.named_tasks) |-> program.named_tasks[i].task]

\* the subtasks validate_program discovers under the task at path: those
\* elements of its tasks list that are not simple insert keys
RECURSIVE Discovered(_, _)
Discovered(top, path) ==
    LET ts == TaskAt(top, path).tasks
    IN  {path} \cup UNION {Discovered(top, path \o <<i>>) :
                             i \in {j \in 1..Len(ts) : ~IsKey(ts[j])}}

\* tasks_to_check when the discovery loop has ended, as paths into TopTasks
tasks_to_check(program) ==
    UNION {Discovered(TopTasks(program), <<i>>) : i \in 1..Len(TopTasks(program))}

\* the label tasks among them
LabelPaths(program) ==
    {p \in tasks_to_check(program) : TaskAt(TopTasks(program), p).cmd = "label"}

\* labels_seen when the discovery loop has ended
labels_seen(program) ==
    {"CONTINUE"} \cup {TaskAt(TopTasks(program), p).name : p \in LabelPaths(program)}

\* assert not task['name'] in labels_seen, for every label in turn
LabelsUnique(program) ==
    \A p \in LabelPaths(program) :
        /\ TaskAt(TopTasks(program), p).name # "CONTINUE"
        /\ \A q \in LabelPaths(program) :
              q # p => TaskAt(TopTasks(program), q).name # TaskAt(TopTasks(program), p).name

\* the simple insert keys among the values of the task itself
insertkeys_used(task) ==
    {f.key : f \in {g \in {task.item, task.text} : g.ref}}

\* its output_name, and for a for task the names it binds
insertkeys_defined(task) ==
    (IF task.output_name # "" THEN {task.output_name} ELSE {})
    \cup (IF task.cmd = "for"
          THEN {task.name_list_map[i].name : i \in 1..Len(task.name_list_map)}
          ELSE {})

\* the keys of default_state's inserts, the special keys, and for every
\* discovered task what it defines and does not itself use
all_insertkeys_ever_available(program) ==
    (DOMAIN program.inserts) \cup {"HH:MM", "HH:MM:SS"}
    \cup UNION {insertkeys_defined(TaskAt(TopTasks(program), p))
                  \ insertkeys_used(TaskAt(TopTasks(program), p)) :
                p \in tasks_to_check(program)}

\* every key between braces in to_string of a task of order: the keys of
\* its own fields, the keys in its tasks list, and those of its subtasks
RECURSIVE content_keys(_)
content_keys(task) ==
    insertkeys_used(task)
    \cup UNION {IF IsKey(task.tasks[i]) THEN {task.tasks[i].key}
                ELSE content_keys(task.tasks[i]) : i \in 1..Len(task.tasks)}

\* insertkey.startswith("ARG") and insertkey[3:].isdigit()
IsArgKey(key) == key \in {"ARG1"}

\* the scan of the content of program['order']: every key is one that may
\* ever be defined, or an ARG<n> key
is_possible_key(program) ==
    \A i \in 1..Len(program.order) : \A key \in content_keys(program.order[i]) :
        key \in all_insertkeys_ever_available(program) \/ IsArgKey(key)

\* label.rsplit('/', maxsplit=1)[-1]
rsplit_last(label) ==
    LET at == {i \in 1..Len(label) : label[i] = "/"}
    IN  IF at = {} THEN label
        ELSE SubSeq(label, (CHOOSE i \in at : \A j \in at : j <= i) + 1, Len(label))

\* segment.startswith('parallel'): a segment starts with the name of its
\* command, and two commands have a name that starts with 'parallel'
startswith_parallel(segment) ==
    Len(segment) > 0 /\ segment[1] \in {"parallel_wait", "parallel_race"}

\* 1181: assert not task['traceback_label'].rsplit('/', maxsplit=1)[-1]
\*       .startswith('parallel')
goto_allowed(label) == ~startswith_parallel(rsplit_last(label))

\* validate_task: the task matches one of the cases, a run_task names a
\* named task, a goto names a label that was seen and passes the assertion
\* on its traceback label
validate_task(program, p) ==
    LET task == TaskAt(TopTasks(program), p)
    IN  /\ task.cmd \in TaskKinds
        /\ task.cmd = "run_task" =>
              \E i \in 1..Len(program.named_tasks) : program.named_tasks[i].name = task.name
        /\ task.cmd = "goto" =>
              /\ task.name \in labels_seen(program)
              /\ goto_allowed(traceback_label(TopTasks(program), p))

\* validate_program raises nothing
validate_program(program) ==
    /\ LabelsUnique(program)
    /\ is_possible_key(program)
    /\ \A p \in tasks_to_check(program) : validate_task(program, p)

\* ------------------------------------------- the run of a valid program
\* What execute_task does with a task when no task suspends: the inserts
\* after it, what it returns ("None", a goto target, "err" when it raises,
\* "loops" when it does not end within MaxSteps tasks), and the faults
\* raised on the way ("ValueError" is the min() of no label, 1499-1501 and
\* 2126-2128).  The tasks of a parallel block run one after another
\* in list order; pick is the member of done that parallel_race pops.
NoFaults == {}

Outcome(ins, ret, faults, fuel) == [ins |-> ins, ret |-> ret, faults |-> faults, fuel |-> fuel]

\* recursive_interpolate, 1334-1344: the elements of the tasks list of a
\* block that are simple insert keys are replaced by the values of the keys
splice(ins, ts) ==
    [i \in 1..Len(ts) |-> IF IsKey(ts[i]) THEN ins[ts[i].key] ELSE ts[i]]

\* a recursive_interpolate that goes into the tasks of a block
missing_key_Deep(ins, task) ==
    \/ insertkeys_used(task) \ (DOMAIN ins) # {}
    \/ \E i \in 1..Len(task.tasks) :
          IF IsKey(task.tasks[i]) THEN task.tasks[i].key \notin DOMAIN ins
          ELSE insertkeys_used(task.tasks[i]) \ (DOMAIN ins) # {}

\* get_interpdata raises InterpolationException: a field of the task, or an
\* element of its tasks list, is a simple key that is not in inserts
missing_key(ins, task) ==
    \/ insertkeys_used(task) \ (DOMAIN ins) # {}
    \/ \E i \in 1..Len(task.tasks) : IsKey(task.tasks[i]) /\ task.tasks[i].key \notin DOMAIN ins

RECURSIVE execute_task(_, _, _, _, _)
RECURSIVE run_serial(_, _, _, _, _, _, _)
RECURSIVE run_for(_, _, _, _, _, _, _)
RECURSIVE run_parallel(_, _, _, _, _, _, _, _)
execute_task(program, task, ins, pick, fuel) ==
    LET none == Outcome(ins, "None", NoFaults, fuel)
        body == splice(ins, task.tasks)
        par == run_parallel(program, body, 1, ins, pick, fuel, NoFaults, <<>>)
    IN  IF missing_key(ins, task)
        THEN Outcome(ins, "err", {"missing_key"}, fuel)
        ELSE IF task.cmd = "set"
        THEN Outcome(Put(ins, task.output_name, interpolate_inserts(ins, task.item)),
                     "None", NoFaults, fuel)
        ELSE IF task.cmd = "goto"
        THEN Outcome(ins, IF task.name # "CONTINUE" THEN task.name ELSE "None", NoFaults, fuel)
        ELSE IF task.cmd = "run_task"
        THEN execute_task(program,
                          (CHOOSE n \in Range(program.named_tasks) : n.name = task.name).task,
                          ins, pick, fuel)
        ELSE IF task.cmd = "serial"
        THEN run_serial(program, body, 1, ins, pick, fuel, NoFaults)
        ELSE IF task.cmd = "for"
        THEN run_for(program, [task EXCEPT !.tasks = body], 1, ins, pick, fuel, NoFaults)
        ELSE IF task.cmd = "parallel_wait"
        THEN Outcome(par.ins,
                     IF "loops" \in Range(par.rets) THEN "loops"
                     ELSE IF "err" \in Range(par.rets) THEN "err" ELSE "None",
                     par.faults, par.fuel)
        ELSE IF task.cmd = "parallel_race"
        THEN Outcome(par.ins,
                     IF "loops" \in Range(par.rets) THEN "loops"
                     ELSE IF par.rets[((pick - 1) % Len(par.rets)) + 1] = "err" THEN "err"
                     ELSE "None",
                     par.faults, par.fuel)
        ELSE IF task.cmd \in TaskKinds
        THEN none
        ELSE Outcome(ins, "err", {"unprocessable"}, fuel)

\* the while loop of serial (1492-1503) from subtask i on
run_serial(program, body, i, ins, pick, fuel, faults) ==
    LET r == execute_task(program, body[i], ins, pick, fuel - 1)
        f == faults \cup r.faults
    IN  IF i > Len(body) THEN Outcome(ins, "None", faults, fuel)
        ELSE IF fuel = 0 THEN Outcome(ins, "loops", faults, fuel)
        ELSE IF r.ret \in {"err", "loops"} THEN Outcome(r.ins, r.ret, f, r.fuel)
        ELSE IF r.ret = "None" THEN run_serial(program, body, i + 1, r.ins, pick, r.fuel, f)
        ELSE IF LabelIndices(body, r.ret) = {}
        THEN Outcome(r.ins, "err", f \cup {"ValueError"}, r.fuel)
        ELSE run_serial(program, body, 2 + SetMin(LabelIndices(body, r.ret)), r.ins, pick, r.fuel, f)

\* the iterations of for (1661-1682) from iteration n on
run_for(program, task, n, ins, pick, fuel, faults) ==
    LET nlm == task.name_list_map
        r == run_serial(program, task.tasks, 1, BindItems(ins, nlm, n, 1), pick, fuel, faults)
    IN  IF n > Len(nlm[1].list) THEN Outcome(ins, "None", faults, fuel)
        ELSE IF r.ret # "None" THEN r
        ELSE run_for(program, task, n + 1, r.ins, pick, r.fuel, r.faults)

\* the tasks of a parallel block, each run to its end, from task i on; rets
\* is what each of them returned
run_parallel(program, body, i, ins, pick, fuel, faults, rets) ==
    LET r == IF fuel = 0 THEN Outcome(ins, "loops", NoFaults, 0)
             ELSE execute_task(program, body[i], ins, pick, fuel - 1)
    IN  IF i > Len(body) THEN [ins |-> ins, rets |-> rets, faults |-> faults, fuel |-> fuel]
        ELSE run_parallel(program, body, i + 1, r.ins, pick, r.fuel,
                          faults \cup r.faults, Append(rets, r.ret))

\* the loop of async_main (2106-2142) from order_index oi on
RECURSIVE run_order(_, _, _, _, _, _)
run_order(program, oi, ins, pick, fuel, faults) ==
    LET r == execute_task(program, program.order[oi], ins, pick, fuel - 1)
        f == faults \cup r.faults
    IN  IF oi > Len(program.order) THEN [end |-> "exited", faults |-> faults]
        ELSE IF fuel = 0 THEN [end |-> "loops", faults |-> faults]
        ELSE IF r.ret = "loops" THEN [end |-> "loops", faults |-> f]
        ELSE IF r.ret = "err" THEN [end |-> "crashed", faults |-> f]
        ELSE IF r.ret # "None" /\ LabelIndices(program.order, r.ret) = {}
        THEN [end |-> "crashed", faults |-> f \cup {"ValueError"}]
        ELSE IF r.ret = "None" THEN run_order(program, oi + 1, r.ins, pick, r.fuel, f)
        ELSE run_order(program, 2 + SetMin(LabelIndices(program.order, r.ret)), r.ins, pick, r.fuel, f)
\* ------------------------------------------------ programs to validate
\* what a body may hold: a label, a goto, prints of a text, of a key the
\* program sets and of the first argument, a set, a task of no known kind,
\* a run_task, and the simple insert key of a task kept in inserts
BodyTasks ==
    {Label(0, "L"), Goto(0, "L"), Print_(0, Lit(A)), Print_(0, Ref("k")),
     Print_(0, Ref("ARG1")), Set(0, "k", Lit(A)), Unknown(0), RunTask(0, "n")}

Bodies == UNION {[1..n -> BodyTasks \cup {Ref("t")}] : n \in 1..MaxBody}

\* the tasks of a body stand on the lines that follow the line of the block
OnLines(body, from) ==
    [i \in 1..Len(body) |->
        IF IsKey(body[i]) THEN body[i] ELSE [body[i] EXCEPT !.line = from + i]]

Blocks ==
    UNION {{Serial(1, OnLines(b, 1)), For(1, <<Bind("x", <<A>>)>>, OnLines(b, 1)),
            ParallelWait(1, OnLines(b, 1)), ParallelRace(1, OnLines(b, 1))} : b \in Bodies}

\* one task, or one task and a label after it
Orders ==
    LET first == {[x EXCEPT !.line = 1] : x \in BodyTasks} \cup Blocks
    IN  {<<x>> : x \in first} \cup {<<x, Label(9, "L")>> : x \in first}

Programs ==
    [order : Orders,
     named_tasks : {<<>>, <<Named("n", Print_(11, Lit(A)))>>},
     inserts : {EmptyDict, "t" :> Unknown(0), "t" :> Print_(0, Lit(A))}]

\* ------------------------------------------------- load and async_main
\* the task executor has not been started
ExecutorAtRest ==
    /\ run = Run(<<>>, <<>>, NoFileSaves, 0)
    /\ state = default_state
    /\ heap = [o \in ObjIds |-> EmptyDict]
    /\ save_states = EmptyDict
    /\ disk = EmptyDict
    /\ menu_state = [is_menu_open |-> FALSE, async_task |-> 0]
    /\ killme = FALSE
    /\ tasks = [t \in TaskIds |-> FreeTask]
    /\ ready = <<>>
    /\ batch = 0
    /\ running = 0
    /\ main_pc = ""
    /\ budget = 0
    /\ hist = NoHist

InitValidate ==
    /\ ExecutorAtRest
    /\ CmdsAtRest
    /\ FilterAtRest
    /\ InterpolationAtRest
    /\ vprog \in Programs
    /\ vpc = "loaded"
    /\ vout = [end |-> "", faults |-> {}]

\* load (2052): validate_program(program) raises or returns
Validate ==
    /\ vpc = "loaded"
    /\ vpc' = IF validate_program(vprog) THEN "validated" ELSE "rejected"
    /\ UNCHANGED <<vprog, vout, evars, fvars, ivars, cmds>>

\* async_main runs the order of the validated program to its end
Execute ==
    /\ vpc = "validated"
    /\ \E pick \in 1..MaxBody :
          vout' = run_order(vprog, 1, vprog.inserts, pick, MaxSteps, NoFaults)
    /\ vpc' = "ran"
    /\ UNCHANGED <<vprog, evars, fvars, ivars, cmds>>

NextValidate ==
    \/ Validate
    \/ Execute

SpecValidate == InitValidate /\ [][NextValidate]_vars

\* a goto stands directly in the tasks list of a parallel block
GotoInParallel(program) ==
    \E p \in tasks_to_check(program) :
        LET task == TaskAt(TopTasks(program), p)
        IN  /\ task.cmd \in {"parallel_wait", "parallel_race"}
            /\ \E i \in 1..Len(task.tasks) :
                  ~IsKey(task.tasks[i]) /\ task.tasks[i].cmd = "goto"

\* an ARG<n> key is interpolated somewhere in the program
UsesArgs(program) ==
    \E i \in 1..Len(TopTasks(program)) :
        \E key \in content_keys(TopTasks(program)[i]) : IsArgKey(key)

\* C12 - validator completeness (commands): the run of a program that passed
\* validate_program never reaches the 'unprocessable task' fall-through of
\* execute_task.
C12_NoUnprocessableTask ==
    vpc = "ran" => "unprocessable" \notin vout.faults

\* C13 - validator completeness (keys): with no ARG<n> key in the program,
\* the run of a program that passed validate_program never fails to find an
\* interpolated key, whatever the order in which its tasks define and use
\* the keys.
C13_NoMissingKey ==
    (vpc = "ran" /\ ~UsesArgs(vprog)) => "missing_key" \notin vout.faults

\* C14 - validate_program rejects every program that holds a goto directly
\* in the tasks list of a parallel_wait or parallel_race.
C14_GotoInParallelRejected ==
    vpc \in {"validated", "ran"} => ~GotoInParallel(vprog)

\* ======================================================================
\* filter.py: the forward filter.  A string is the sequence of its
\* characters.
\* ======================================================================

\* the longest sample of the alphabet, and the widest chunk
MaxSample == 4
MaxChunk == 3

\* s[a:b]
slice(s, a, b) == SubSeq(s, a + 1, IF b < Len(s) THEN b ELSE Len(s))

\* s.startswith(prefix)
startswith(s, prefix) ==
    Len(prefix) <= Len(s) /\ SubSeq(s, 1, Len(prefix)) = prefix

\* the for ... else of update (30-34): the first index from which the
\* buffer, cut to the length of next_str, is a beginning of next_str; the
\* length of the buffer when there is none
safebelow(buffer, next_str) ==
    LET held == {i \in 0..(Len(buffer) - 1) :
                    startswith(next_str, slice(buffer, i, i + Len(next_str)))
                    /\ next_str # <<>>}
    IN  IF held = {} THEN Len(buffer) ELSE SetMin(held)

\* a header that never puts the two newlines first
enumeration_NoGap(n) ==
    Digits(n) \o <<".", " ">>

\* "\n\n"*(len(outputs) > 1) + f"{len(outputs)}. "  (28)
enumeration(n) ==
    (IF n > 1 THEN <<"\n", "\n">> ELSE <<>>) \o Digits(n) \o <<".", " ">>

\* update (11-42): the closure after the call and what the call returns.
\* next_str is read once, before the toggle, and the scan of the buffer
\* uses that same value.
update(cfg, f, chunk) ==
    LET buffer0 == f.buffer \o chunk
        next_str == IF f.mode_is_shown THEN cfg.stop_str ELSE cfg.start_str
        toggle == startswith(buffer0, next_str) /\ next_str # <<>>
        buffer1 == IF toggle THEN slice(buffer0, Len(next_str), Len(buffer0))
                   ELSE buffer0
        mode == IF toggle THEN ~f.mode_is_shown ELSE f.mode_is_shown
        outputs1 == IF toggle /\ mode THEN Append(f.outputs, <<>>) ELSE f.outputs
        header == IF toggle /\ mode /\ cfg.enumerate_outputs
                  THEN enumeration(Len(outputs1)) ELSE <<>>
        sb == safebelow(buffer1, next_str)
        delta == IF mode THEN slice(buffer1, 0, sb) ELSE <<>>
        outputs2 == IF mode
                    THEN [outputs1 EXCEPT ![Len(outputs1)] = @ \o delta]
                    ELSE outputs1
    IN  [f |-> [mode_is_shown |-> mode,
                buffer |-> slice(buffer1, sb, Len(buffer1)),
                outputs |-> outputs2],
         ret |-> header \o delta]

\* passthrough (44-49)
passthrough(cfg, f, chunk) ==
    LET outputs1 == IF Len(f.outputs) = 0 THEN <<<<>>>> ELSE f.outputs
    IN  [f |-> [f EXCEPT !.outputs =
                    [outputs1 EXCEPT ![Len(outputs1)] = @ \o chunk]],
         ret |-> chunk]

\* filter (51-54) hands out passthrough when a delimiter is empty
Delimited(cfg) == cfg.start_str # <<>> /\ cfg.stop_str # <<>>

call(cfg, f, chunk) ==
    IF Delimited(cfg) THEN update(cfg, f, chunk) ELSE passthrough(cfg, f, chunk)

\* ------------------------------------------------------------ the samples
Alphabet == {"<", ">", "/", "x"}

Strings == UNION {[1..n -> Alphabet] : n \in 0..MaxSample}

\* the sample and the delimiters of the demonstration (96, 101)
DemoSample == 
    <<"<", "o", "u", "t", "p", "u", "t", ">", "1", "<", "/", "o", "u", "t", "p", "u", "t", ">">>
    \o <<"\n", "\n", "\t">>
    \o <<"<", "o", "u", "t", "p", "u", "t", ">", "a", "n", "d", " ", "2", "<", "/", "o", "u", "t", "p", "u", "t", ">">>
DemoStart == <<"<", "o", "u", "t", "p", "u", "t", ">">>
DemoStop == <<"<", "/", "o", "u", "t", "p", "u", "t", ">">>

Filters ==
    [start_str : {<<"<", ">">>}, stop_str : {<<"/", ">">>},
     enumerate_outputs : BOOLEAN, sample : Strings]
    \cup [start_str : {<<>>}, stop_str : {<<"/", ">">>},
          enumerate_outputs : {FALSE}, sample : Strings]
    \cup {[start_str |-> DemoStart, stop_str |-> DemoStop,
           enumerate_outputs |-> TRUE, sample |-> DemoSample]}

InitFilter ==
    /\ ExecutorAtRest
    /\ CmdsAtRest
    /\ ValidatorAtRest
    /\ InterpolationAtRest
    /\ fin \in Filters
    /\ fst = FreshFilter
    /\ fout = NothingFed

\* the loop of the demonstration (103-105): the next chunk of the sample,
\* chunk_width characters or what is left of it, goes to the filter and
\* what the filter returns is printed
Feed(chunk_width) ==
    /\ fin # NoFilter
    /\ fout.i < Len(fin.sample)
    /\ LET r == call(fin, fst, slice(fin.sample, fout.i, fout.i + chunk_width))
       IN  /\ fst' = r.f
           /\ fout' = [i |-> IF fout.i + chunk_width < Len(fin.sample)
                             THEN fout.i + chunk_width ELSE Len(fin.sample),
                       printed |-> fout.printed \o r.ret,
                       ret |-> r.ret,
                       widths |-> fout.widths \cup {chunk_width}]
    /\ UNCHANGED <<fin, evars, vvars, ivars, cmds>>

FeedChunk == \E chunk_width \in 1..MaxChunk : Feed(chunk_width)

NextFilter == FeedChunk

SpecFilter == InitFilter /\ [][NextFilter]_vars

\* the whole sample has been fed
AllFed == fin # NoFilter /\ fout.i = Len(fin.sample)

\* what a fresh filter returns when the sample is its single chunk
SingleChunk == call(fin, FreshFilter, fin.sample).ret

\* C15 - filter completeness: once the whole sample has been fed to a fresh
\* forward filter with two non-empty delimiters, in chunks of any widths,
\* the returned deltas put together are what a fresh filter returns for the
\* sample as its single chunk.
C15_ChunkingInvariant ==
    (AllFed /\ Delimited(fin)) => fout.printed = SingleChunk

\* s.find(sub, from), -1 when sub does not occur
find(s, sub, from) ==
    LET at == {i \in from..(Len(s) - Len(sub)) : slice(s, i, i + Len(sub)) = sub}
    IN  IF at = {} THEN 0 - 1 ELSE SetMin(at)

\* the regions of s from index from on, read from left to right: the texts
\* between a start_str and the stop_str that follows it; ok is FALSE when a
\* region is left open
RECURSIVE regions(_, _, _, _)
regions(s, start_str, stop_str, from) ==
    LET a == find(s, start_str, from)
        b == find(s, stop_str, a + Len(start_str))
        rest == regions(s, start_str, stop_str, b + Len(stop_str))
    IN  IF a < 0 THEN [ok |-> TRUE, inner |-> <<>>]
        ELSE IF b < 0 THEN [ok |-> FALSE, inner |-> <<>>]
        ELSE [ok |-> rest.ok,
              inner |-> <<slice(s, a + Len(start_str), b)>> \o rest.inner]

SampleRegions == regions(fin.sample, fin.start_str, fin.stop_str, 0)

\* C16 - filter round-trip: when the sample is made of k closed regions and
\* the text between them, then once it has been fed, in chunks of any
\* widths, outputs holds the k texts between the delimiters, in order.
C16_OutputsAreRegions ==
    (AllFed /\ Delimited(fin) /\ SampleRegions.ok)
        => fst.outputs = SampleRegions.inner

\* the header the n-th flip to shown is said to put before the text
Header(n) ==
    IF n > 1 THEN <<"\n", "\n">> \o Digits(n) \o <<".", " ">>
    ELSE Digits(n) \o <<".", " ">>

\* the demonstration was fed whole in chunks of 3 characters
DemoFed ==
    /\ AllFed
    /\ fin.sample = DemoSample /\ fin.start_str = DemoStart
    /\ fin.stop_str = DemoStop /\ fin.enumerate_outputs
    /\ fout.widths = {3}

DemoPrinted == <<"1", ".", " ", "1", "\n", "\n", "2", ".", " ", "a", "n", "d", " ", "2">>

DemoOutputs == <<<<"1">>, <<"a", "n", "d", " ", "2">>>>

\* a call of update flipped the filter to shown for the n-th time: it
\* returned the header of n and then the text of the region it has so far
FlipToShown ==
    (/\ Delimited(fin) /\ fin.enumerate_outputs
     /\ Len(fst'.outputs) = Len(fst.outputs) + 1)
        => fout'.ret = Header(Len(fst'.outputs))
                         \o fst'.outputs[Len(fst'.outputs)]

\* C17 - with enumeration enabled the n-th flip to shown returns '<n>. ',
\* after two newlines iff n > 1, before the text of the region; and the
\* demonstration fed in chunks of 3 characters prints '1. 1', two newlines,
\* '2. and 2' and leaves outputs = ['1', 'and 2'].
C17_Enumeration ==
    /\ [](DemoFed => (fout.printed = DemoPrinted /\ fst.outputs = DemoOutputs))
    /\ [][FlipToShown]_vars

\* the demonstration has been fed in chunks of 3 and its second region
\* was announced
C17_witness ==
    DemoFed /\ Len(fst.outputs) = 2 /\ fout.printed = DemoPrinted

\* ======================================================================
\* Interpolation of a text of characters: get_simple_insertkey,
\* interpolate_inserts, recursive_escape, recursive_unescape.
\* ======================================================================

\* the longest text that comes from outside, and the most substitutions one
\* interpolation makes
MaxText == 3
MaxSubst == 4

insert_start == <<"{">>
insert_stop == <<"}">>
escape == <<"\\">>

\* the placeholders (485-486): a full stop and the three characters
\* U+201E, U+00C4, U+2020, and the same the other way round
Mark == <<"U+201E", "U+00C4", "U+2020">>
replaced_escaped_insert_start == <<".">> \o Mark
replaced_escaped_insert_stop == Mark \o <<".">>

\* s.replace(old, new): from left to right, occurrences that do not overlap
RECURSIVE replace(_, _, _)
replace(s, old, new) ==
    IF Len(s) < Len(old) \/ old = <<>> THEN s
    ELSE IF startswith(s, old)
    THEN new \o replace(slice(s, Len(old), Len(s)), old, new)
    ELSE <<Head(s)>> \o replace(Tail(s), old, new)

\* s.count(sub)
RECURSIVE count(_, _)
count(s, sub) ==
    IF Len(s) < Len(sub) THEN 0
    ELSE IF startswith(s, sub) THEN 1 + count(slice(s, Len(sub), Len(s)), sub)
    ELSE count(Tail(s), sub)

\* s.rfind(sub), -1 when sub does not occur
rfind(s, sub) ==
    LET at == {i \in 0..(Len(s) - Len(sub)) : slice(s, i, i + Len(sub)) = sub}
    IN  IF at = {} THEN 0 - 1 ELSE CHOOSE i \in at : \A j \in at : j <= i

\* recursive_escape of a string (1302-1306)
recursive_escape(x) ==
    replace(replace(x, insert_start, escape \o insert_start),
            insert_stop, escape \o insert_stop)

\* recursive_unescape of a string (1289-1293); print does the same (1525)
recursive_unescape(x) ==
    replace(replace(x, escape \o insert_start, insert_start),
            escape \o insert_stop, insert_stop)

\* the escaped delimiters give way to the placeholders (486-489, 514-517)
hide_escaped(content) ==
    replace(replace(content, escape \o insert_start, replaced_escaped_insert_start),
            escape \o insert_stop, replaced_escaped_insert_stop)

\* a restore that leaves the delimiters bare
restore_escaped_Bare(content) ==
    replace(replace(content, replaced_escaped_insert_start, insert_start),
            replaced_escaped_insert_stop, insert_stop)

\* the placeholders give way to the escaped delimiters (507-510, 520-523)
restore_escaped(content) ==
    replace(replace(content, replaced_escaped_insert_start, escape \o insert_start),
            replaced_escaped_insert_stop, escape \o insert_stop)

\* get_simple_insertkey (460-478): none is TRUE for None; the depth that is
\* tested at index i counts the starts before i and the stops up to i
get_simple_insertkey(content) ==
    LET n == Len(content)
        depth(i) == Cardinality({j \in 1..i : content[j] = "{"})
                    - Cardinality({j \in 1..(i + 1) : content[j] = "}"})
        none == \E i \in 0..(n - 1) : (depth(i) = 0) # (i = 0 \/ i = n - 1)
    IN  [none |-> none, key |-> IF none THEN <<>> ELSE slice(content, 1, n - 1)]

\* if (insertkey := get_simple_insertkey(...)): neither None nor ''
Truthy(k) == ~k.none /\ k.key # <<>>

\* get_interpdata (413-451) with no inserts directory: a key that is not in
\* inserts raises InterpolationException
get_interpdata(inserts, insertkey) ==
    IF insertkey \in DOMAIN inserts
    THEN [ret |-> "value", value |-> inserts[insertkey]]
    ELSE [ret |-> "InterpolationException", value |-> <<>>]

Raised(ret, lookups) == [ret |-> ret, value |-> <<>>, lookups |-> lookups]

\* the while loop of interpolate_inserts (499-518) and the restore after it
RECURSIVE substitute(_, _, _, _)
substitute(inserts, content, lookups, fuel) ==
    LET n_insert_starts == count(content, insert_start)
                           - count(content, escape \o insert_start)
        n_insert_stops == count(content, insert_stop)
                          - count(content, escape \o insert_stop)
        outer_from == rfind(content, insert_start)
        inner_to == find(content, insert_stop, outer_from + Len(insert_start))
        inner_from == outer_from + Len(insert_start)
        outer_to == inner_to + Len(insert_stop)
        insertkey == restore_escaped(slice(content, inner_from, inner_to))
        got == get_interpdata(inserts, insertkey)
        after == hide_escaped(slice(content, 0, outer_from) \o got.value
                              \o slice(content, outer_to, Len(content)))
    IN  IF find(content, insert_start, 0) < 0
        THEN [ret |-> "value", value |-> restore_escaped(content), lookups |-> lookups]
        ELSE IF n_insert_starts # n_insert_stops THEN Raised("AssertionError", lookups)
        ELSE IF inner_to < 0
        THEN [ret |-> "value", value |-> restore_escaped(content), lookups |-> lookups]
        ELSE IF got.ret # "value" THEN Raised(got.ret, lookups \cup {insertkey})
        ELSE IF fuel = 0 THEN Raised("loops", lookups \cup {insertkey})
        ELSE substitute(inserts, after, lookups \cup {insertkey}, fuel - 1)

\* interpolate_inserts (480-524) on characters: what it returns or raises,
\* and the keys it looked up
RECURSIVE interpolate(_, _)
interpolate(inserts, content0) ==
    LET content == hide_escaped(content0)
        insertkey == get_simple_insertkey(content)
        sub_insertkey == get_simple_insertkey(insertkey.key)
        inner == IF Truthy(sub_insertkey)
                 THEN interpolate(inserts, insert_start \o sub_insertkey.key \o insert_stop)
                 ELSE interpolate(inserts, insertkey.key)
        got == get_interpdata(inserts, inner.value)
    IN  IF Truthy(insertkey)
        THEN IF inner.ret # "value" THEN inner
             ELSE [ret |-> got.ret, value |-> got.value,
                   lookups |-> inner.lookups \cup {inner.value}]
        ELSE substitute(inserts, content, {}, MaxSubst)

\* recursive_interpolate of a string (1315-1319): what a simple insert key
\* gives is interpolated again, and get_simple_insertkey reads the raw text,
\* escaped delimiters included; a recursion that does not end raises
\* RecursionError
RECURSIVE recursive_interpolate(_, _, _)
recursive_interpolate(inserts, x, fuel) ==
    LET r == interpolate(inserts, x)
        again == recursive_interpolate(inserts, r.value, fuel - 1)
    IN  IF Truthy(get_simple_insertkey(x)) /\ r.ret = "value"
        THEN IF fuel = 0 THEN Raised("RecursionError", r.lookups)
             ELSE [again EXCEPT !.lookups = @ \cup r.lookups]
        ELSE r

\* ------------------------------------------------------------ the texts
Characters == {"{", "}", "\\", ".", "a"}

Texts == UNION {[1..n -> Characters] : n \in 0..MaxText}

Name == <<"n", "a", "m", "e">>
Ada == <<"A", "d", "a">>
Arg1 == <<"A", "R", "G", "1">>
Answer == <<"a", "n", "s", "w", "e", "r">>

\* the text of scenario S2
HelloTemplate == <<"H", "e", "l", "l", "o", " ", "{", "n", "a", "m", "e", "}", "\\", "{", "x", "\\", "}", "!">>

\* templates that refer to key: alone, in a text, beside another key, in
\* the name of another key, and before escaped delimiters
Templates(key) ==
    LET ref == insert_start \o key \o insert_stop
    IN  {ref,
         <<"x">> \o ref \o <<"y">>,
         ref \o insert_start \o Name \o insert_stop,
         insert_start \o Name \o insert_stop \o ref,
         <<"x">> \o insert_start \o <<"k">> \o ref \o insert_stop,
         ref \o escape \o insert_start \o <<"x">> \o escape \o insert_stop}

\* the inserts of a program: name, and the key that the text names
InsertsFor(text) ==
    (Name :> Ada) @@ ((<<"k">> \o recursive_escape(text)) :> <<"V">>)

Interpolations ==
    {[case |-> "S2", inserts |-> (Name :> Ada), content |-> HelloTemplate,
      text |-> <<>>]}
    \cup {[case |-> "escape", inserts |-> (Name :> Ada), content |-> <<>>,
           text |-> s] : s \in Texts}
    \cup {[case |-> "ARG", inserts |-> InsertsFor(s), content |-> t, text |-> s] :
             s \in Texts, t \in Templates(Arg1)}
    \cup {[case |-> "user_input", inserts |-> InsertsFor(s), content |-> t,
           text |-> s] : s \in Texts, t \in Templates(Answer)}

InitInterpolate ==
    /\ ExecutorAtRest
    /\ CmdsAtRest
    /\ ValidatorAtRest
    /\ FilterAtRest
    /\ iin \in Interpolations
    /\ ipc = IF iin.case = "S2" THEN "ready" ELSE "start"
    /\ iout = NoResult

\* the text is escaped and is the content to interpolate
Escape ==
    /\ ipc = "start" /\ iin.case = "escape"
    /\ iin' = [iin EXCEPT !.content = recursive_escape(iin.text)]
    /\ ipc' = "ready"
    /\ UNCHANGED <<iout, evars, vvars, fvars, cmds>>

\* async_main (2090-2096): the argument goes to ARG1 with its delimiters
\* escaped
PopulateArgs ==
    /\ ipc = "start" /\ iin.case = "ARG"
    /\ iin' = [iin EXCEPT !.inserts =
                  (Arg1 :> replace(replace(iin.text, insert_start, escape \o insert_start),
                                   insert_stop, escape \o insert_stop)) @@ @]
    /\ ipc' = "ready"
    /\ UNCHANGED <<iout, evars, vvars, fvars, cmds>>

\* user_input (1417-1423): the answer goes to output_name with its
\* delimiters escaped
UserInput ==
    /\ ipc = "start" /\ iin.case = "user_input"
    /\ iin' = [iin EXCEPT !.inserts =
                  (Answer :> replace(replace(iin.text, insert_start, escape \o insert_start),
                                     insert_stop, escape \o insert_stop)) @@ @]
    /\ ipc' = "ready"
    /\ UNCHANGED <<iout, evars, vvars, fvars, cmds>>

\* interpolate_inserts(inserts, content)
Interpolate ==
    /\ ipc = "ready" /\ iin.case \in {"S2", "escape"}
    /\ LET r == interpolate(iin.inserts, iin.content)
       IN  iout' = [ret |-> r.ret, value |-> r.value, lookups |-> r.lookups,
                    shown |-> <<>>]
    /\ ipc' = "interpolated"
    /\ UNCHANGED <<iin, evars, vvars, fvars, cmds>>

\* execute_task (1354): recursive_interpolate of the text of a print task
TaskInterpolate ==
    /\ ipc = "ready" /\ iin.case \in {"ARG", "user_input"}
    /\ LET r == recursive_interpolate(iin.inserts, iin.content, MaxSubst)
       IN  iout' = [ret |-> r.ret, value |-> r.value, lookups |-> r.lookups,
                    shown |-> <<>>]
    /\ ipc' = "interpolated"
    /\ UNCHANGED <<iin, evars, vvars, fvars, cmds>>

\* print (1522-1528) shows the text with its escaped delimiters unescaped
PrintText ==
    /\ ipc = "interpolated" /\ iout.ret = "value"
    /\ iout' = [iout EXCEPT !.shown = recursive_unescape(iout.value)]
    /\ ipc' = "printed"
    /\ UNCHANGED <<iin, evars, vvars, fvars, cmds>>

NextInterpolate ==
    \/ Escape
    \/ PopulateArgs
    \/ UserInput
    \/ Interpolate
    \/ TaskInterpolate
    \/ PrintText

SpecInterpolate == InitInterpolate /\ [][NextInterpolate]_vars

\* the interpolation has returned or raised
Interpolated == ipc \in {"interpolated", "printed"}

HelloEscaped == <<"H", "e", "l", "l", "o", " ", "A", "d", "a", "\\", "{", "x", "\\", "}", "!">>
HelloBare == <<"H", "e", "l", "l", "o", " ", "A", "d", "a", "{", "x", "}", "!">>

\* C18 as stated - interpolating the text of S2 under {name: 'Ada'} returns
\* 'Hello Ada{x}!', the escaped delimiters as bare braces.
C18_ReturnsBareBraces ==
    (iin.case = "S2" /\ Interpolated) => (iout.ret = "value" /\ iout.value = HelloBare)

\* C18 - interpolating the text of S2 under {name: 'Ada'} looks up name and
\* returns 'Hello Ada\{x\}!', the escaped delimiters still escaped; print
\* then shows 'Hello Ada{x}!'.
C18_ReturnsEscapedBraces ==
    (iin.case = "S2" /\ Interpolated)
        => /\ iout.ret = "value"
           /\ iout.value = HelloEscaped
           /\ iout.lookups = {Name}
           /\ ipc = "printed" => iout.shown = HelloBare

C18_witness ==
    iin.case = "S2" /\ ipc = "printed" /\ iout.shown = HelloBare

\* C19 - interpolation round-trip: interpolate_inserts of recursive_escape(s)
\* looks up no key and returns recursive_escape(s), and recursive_unescape
\* of what it returns is s.
C19_RoundTrip ==
    (iin.case = "escape" /\ Interpolated)
        => /\ iout.ret = "value"
           /\ iout.lookups = {}
           /\ iout.value = recursive_escape(iin.text)
           /\ ipc = "printed" => iout.shown = iin.text

\* C20 - a text from the command line or from user_input is stored escaped:
\* interpolating a template that refers to its key comes to an end, keeps
\* the delimiters of the template balanced and looks up only keys of the
\* template (the key of the text, name, and the key whose name the template
\* builds with k).
C20_NoInjection ==
    (iin.case \in {"ARG", "user_input"} /\ Interpolated)
        => /\ iout.ret \notin {"AssertionError", "RecursionError"}
           /\ \A key \in iout.lookups :
                 key \in {Arg1, Answer, Name} \/ (key # <<>> /\ Head(key) = "k")

\* ---------------------------------------------------------- eval_math
\* The mathematical expressions are texts of characters; the numbers python
\* computes with are kept exactly: an int, or a float that is the fraction
\* q[1] / q[2].  The operands are chosen so that every float that is written
\* back into the text has at most four decimals.

\* the integer operands of the expressions
MaxOperand == 4
Operands == {n \in 1..MaxOperand : n \in {1, 2, 4, 8}}

RECURSIVE gcd(_, _)
gcd(a, b) == IF b = 0 THEN a ELSE gcd(b, a % b)

Abs(n) == IF n < 0 THEN -n ELSE n

\* the fraction n / d in lowest terms, d # 0
Frac(n, d) ==
    LET g == gcd(Abs(n), Abs(d))
        s == IF d < 0 THEN -1 ELSE 1
    IN  <<(s * n) \div g, (s * d) \div g>>

QAdd(p, q) == Frac(p[1] * q[2] + q[1] * p[2], p[2] * q[2])
QSub(p, q) == Frac(p[1] * q[2] - q[1] * p[2], p[2] * q[2])
QMul(p, q) == Frac(p[1] * q[1], p[2] * q[2])
QDiv(p, q) == Frac(p[1] * q[2], p[2] * q[1])
QFloor(p) == p[1] \div p[2]
\* python's %: the result has the sign of the divisor
QMod(p, q) == QSub(p, QMul(q, <<QFloor(QDiv(p, q)), 1>>))

RECURSIVE QPow(_, _)
QPow(p, n) == IF n = 0 THEN <<1, 1>> ELSE QMul(p, QPow(p, n - 1))

Int_(n) == [k |-> "int", q |-> <<n, 1>>]
Float(q) == [k |-> "float", q |-> q]
Kind(x, y) == IF x.k = "int" /\ y.k = "int" THEN "int" ELSE "float"

\* what an evaluation gives: a value, or the exception it raised
Val(x) == [ret |-> "value", v |-> x]
Raise(e) == [ret |-> e, v |-> Int_(0)]

\* python's binary operators on ints and floats
binop(op, x, y) ==
    CASE op = "+" -> Val([k |-> Kind(x, y), q |-> QAdd(x.q, y.q)])
      [] op = "-" -> Val([k |-> Kind(x, y), q |-> QSub(x.q, y.q)])
      [] op = "*" -> Val([k |-> Kind(x, y), q |-> QMul(x.q, y.q)])
      [] op = "/" -> IF y.q[1] = 0 THEN Raise("ZeroDivisionError")
                     ELSE Val(Float(QDiv(x.q, y.q)))
      [] op = "%" -> IF y.q[1] = 0 THEN Raise("ZeroDivisionError")
                     ELSE Val([k |-> Kind(x, y), q |-> QMod(x.q, y.q)])

DigitChars == {"0", "1", "2", "3", "4", "5", "6", "7", "8", "9"}
DigitOf(c) == CHOOSE n \in 0..9 : Digits(n) = <<c>>

\* the number a text of digits writes
RECURSIVE Decimal(_)
Decimal(s) ==
    IF s = <<>> THEN 0
    ELSE 10 * Decimal(SubSeq(s, 1, Len(s) - 1)) + DigitOf(s[Len(s)])

RECURSIVE Pow10(_)
Pow10(n) == IF n = 0 THEN 1 ELSE 10 * Pow10(n - 1)

\* a number of python's grammar: digits, or digits with one point
number(s) ==
    LET points == {i \in 1..Len(s) : s[i] = "."}
    IN  IF s = <<>> \/ \E i \in 1..Len(s) : s[i] \notin DigitChars \cup {"."}
        THEN Raise("SyntaxError")
        ELSE IF points = {} THEN Val(Int_(Decimal(s)))
        ELSE IF Cardinality(points) > 1 \/ Len(s) = 1 THEN Raise("SyntaxError")
        ELSE LET p == CHOOSE i \in points : TRUE
                 whole == SubSeq(s, 1, p - 1)
                 part == SubSeq(s, p + 1, Len(s))
             IN  Val(Float(Frac(Decimal(whole) * Pow10(Len(part)) + Decimal(part),
                                Pow10(Len(part)))))

\* a sign and what it is applied to: -x, +x, or a number
RECURSIVE factor(_)
factor(s) ==
    IF s = <<>> THEN Raise("SyntaxError")
    ELSE IF s[1] \in {"-", "+"}
    THEN LET r == factor(Tail(s))
         IN  IF r.ret # "value" \/ s[1] = "+" THEN r
             ELSE Val([k |-> r.v.k, q |-> <<-r.v.q[1], r.v.q[2]>>])
    ELSE number(s)

\* products, quotients and remainders, from left to right
RECURSIVE term(_)
term(s) ==
    LET ops == {i \in 1..Len(s) : s[i] \in {"*", "/", "%"}}
    IN  IF ops = {} THEN factor(s)
        ELSE LET i == CHOOSE i \in ops : \A j \in ops : j <= i
                 l == term(SubSeq(s, 1, i - 1))
                 r == factor(SubSeq(s, i + 1, Len(s)))
             IN  IF l.ret # "value" THEN l
                 ELSE IF r.ret # "value" THEN r
                 ELSE binop(s[i], l.v, r.v)

\* eval(s) of an expression without parentheses, without spaces and without
\* '**': sums and differences of terms, from left to right; a '+' or '-'
\* is a binary operator when it follows a number
RECURSIVE eval(_)
eval(s) ==
    LET ops == {i \in 2..Len(s) : s[i] \in {"+", "-"}
                                  /\ s[i - 1] \in DigitChars \cup {"."}}
    IN  IF ops = {} THEN term(s)
        ELSE LET i == CHOOSE i \in ops : \A j \in ops : j <= i
                 l == eval(SubSeq(s, 1, i - 1))
                 r == term(SubSeq(s, i + 1, Len(s)))
             IN  IF l.ret # "value" THEN l
                 ELSE IF r.ret # "value" THEN r
                 ELSE binop(s[i], l.v, r.v)

\* the decimals of a float, without the zeros at the end
RECURSIVE strip_zeros(_)
strip_zeros(s) ==
    IF Len(s) > 1 /\ s[Len(s)] = "0" THEN strip_zeros(SubSeq(s, 1, Len(s) - 1))
    ELSE s

RECURSIVE pad(_, _)
pad(s, n) == IF Len(s) >= n THEN s ELSE pad(<<"0">> \o s, n)

\* str(x) of an int, or of a float with at most four decimals
str(x) ==
    LET n == Abs(x.q[1])
        d == x.q[2]
        sign == IF x.q[1] < 0 THEN <<"-">> ELSE <<>>
    IN  IF x.k = "int" THEN sign \o Digits(n)
        ELSE sign \o Digits(n \div d) \o <<".">>
             \o strip_zeros(pad(Digits(((n % d) * Pow10(4)) \div d), 4))

\* round(x): to the nearest integer, a half goes to the even one
round(x) ==
    LET f == QFloor(x.q)
        twice == QSub(QMul(x.q, <<2, 1>>), <<2 * f, 1>>)   \* 2 * (x - f)
    IN  IF twice[1] < twice[2] THEN f
        ELSE IF twice[1] > twice[2] THEN f + 1
        ELSE IF f % 2 = 0 THEN f ELSE f + 1

\* math_legal_terminals = set(" .0123456789+-*/%")
math_legal_terminals ==
    {" ", ".", "+", "-", "*", "/", "%"} \cup DigitChars

word_splitting_chars == {" ", "(", ")", "+", "-", "*", "/", "^", "%"}

\* the names of math_functions (757-763)
math_functions == {<<"l", "e", "n", "g", "t", "h">>, <<"m", "i", "n">>,
                   <<"m", "a", "x">>, <<"r", "o", "u", "n", "d">>,
                   <<"s", "i", "g", "n">>}

Chars(s) == {s[i] : i \in 1..Len(s)}

\* math_safe_eval(s): the assertion, '^' replaced by '**', eval
math_safe_eval(s) ==
    IF ~(Chars(s) \subseteq math_legal_terminals) THEN Raise("AssertionError")
    ELSE eval(replace(s, <<"^">>, <<"*", "*">>))

\* the last word of s when its word splitting characters are blanks:
\* ''.join(...).split()[-1]; the empty text when there is no word
RECURSIVE last_word(_)
last_word(s) ==
    IF s = <<>> THEN <<>>
    ELSE IF s[Len(s)] \in word_splitting_chars
    THEN IF \A i \in 1..Len(s) : s[i] \in word_splitting_chars THEN <<>>
         ELSE last_word(SubSeq(s, 1, Len(s) - 1))
    ELSE LET before == SubSeq(s, 1, Len(s) - 1)
         IN  IF before = <<>> \/ before[Len(before)] \in word_splitting_chars
             THEN <<s[Len(s)]>>
             ELSE last_word(before) \o <<s[Len(s)]>>

\* eval_math after the parentheses are gone (805-816)
eval_math_tail(math_input) ==
    IF ~(Chars(math_input) \subseteq math_legal_terminals)
    THEN [ret |-> "AssertionError", value |-> 0]
    ELSE LET result == eval(math_input)
         IN  IF result.ret # "value" THEN [ret |-> result.ret, value |-> 0]
             ELSE LET result_int == round(result.v)
                      off == QDiv(QSub(<<result_int, 1>>, result.v.q), result.v.q)
                  IN  IF result.v.q[1] # 0 /\ Abs(off[1]) * 10000 >= off[2]
                      THEN [ret |-> "AssertionError", value |-> 0]
                      ELSE [ret |-> "value", value |-> result_int]

\* the loop of eval_math (779-801): the innermost last parenthesis is
\* evaluated and its text replaced by the result
RECURSIVE eval_math_loop(_)
eval_math_loop(math_input) ==
    IF find(math_input, <<"(">>, 0) = -1 THEN eval_math_tail(math_input)
    ELSE
    LET outer_from == rfind(math_input, <<"(">>)
        inner_to == find(math_input, <<")">>, outer_from + 1)
        inner_from == outer_from + 1
        outer_to == inner_to + 1
        inner == slice(math_input, inner_from, inner_to)
        \* math_input[outer_from-1]: index -1 is the last character
        before == IF outer_from = 0 THEN math_input[Len(math_input)]
                  ELSE math_input[outer_from]
        function_name == last_word(slice(math_input, 0, outer_from))
    IN  IF inner_to = -1 THEN eval_math_tail(math_input)
        ELSE IF before \in word_splitting_chars
        THEN LET subresult == math_safe_eval(inner)
             IN  IF subresult.ret # "value"
                 THEN [ret |-> subresult.ret, value |-> 0]
                 ELSE eval_math_loop(slice(math_input, 0, outer_from)
                                     \o str(subresult.v)
                                     \o slice(math_input, outer_to, Len(math_input)))
        ELSE IF function_name = <<>> THEN [ret |-> "IndexError", value |-> 0]
        ELSE IF function_name \in math_functions
        THEN [ret |-> "function", value |-> 0]
        ELSE [ret |-> "AssertionError", value |-> 0]

\* eval_math(inserts, math_input)
eval_math(inserts, math_input0) ==
    LET r == interpolate(inserts, math_input0)
        math_input == r.value
    IN  IF r.ret # "value" THEN [ret |-> r.ret, value |-> 0]
        ELSE IF count(math_input, <<"(">>) # count(math_input, <<")">>)
        THEN [ret |-> "AssertionError", value |-> 0]
        ELSE eval_math_loop(math_input)

\* the expressions: a op1 b, (a op1 b), (a op1 b) op2 c, a op1 (b op2 c)
Operators == {"+", "-", "*", "/", "%", "^"}
Shapes == {"ab", "(ab)", "(ab)c", "a(bc)"}
Trees ==
    [shape : {"ab", "(ab)"}, a : Operands, op1 : Operators, b : Operands,
     op2 : {"+"}, c : {1}]
    \cup [shape : {"(ab)c", "a(bc)"}, a : Operands, op1 : Operators,
          b : Operands, op2 : Operators, c : Operands]

\* the text of an expression
Text(e) ==
    CASE e.shape = "ab" -> Digits(e.a) \o <<e.op1>> \o Digits(e.b)
      [] e.shape = "(ab)" -> <<"(">> \o Digits(e.a) \o <<e.op1>> \o Digits(e.b) \o <<")">>
      [] e.shape = "(ab)c" -> <<"(">> \o Digits(e.a) \o <<e.op1>> \o Digits(e.b)
                              \o <<")">> \o <<e.op2>> \o Digits(e.c)
      [] e.shape = "a(bc)" -> Digits(e.a) \o <<e.op1>> \o <<"(">> \o Digits(e.b)
                              \o <<e.op2>> \o Digits(e.c) \o <<")">>

\* the powers that are computed: the exponent and the base they go up to
MaxPower == 4
MaxBase == 16

\* the value of x op y in arithmetic, '^' is exponentiation; no value when
\* the divisor is zero, the exponent is not a natural number, or the power
\* is not one of those computed
Apply(op, x, y) ==
    IF ~x.ok \/ ~y.ok THEN [ok |-> FALSE, q |-> <<0, 1>>]
    ELSE CASE op = "+" -> [ok |-> TRUE, q |-> QAdd(x.q, y.q)]
           [] op = "-" -> [ok |-> TRUE, q |-> QSub(x.q, y.q)]
           [] op = "*" -> [ok |-> TRUE, q |-> QMul(x.q, y.q)]
           [] op = "/" -> IF y.q[1] = 0 THEN [ok |-> FALSE, q |-> <<0, 1>>]
                          ELSE [ok |-> TRUE, q |-> QDiv(x.q, y.q)]
           [] op = "%" -> IF y.q[1] = 0 THEN [ok |-> FALSE, q |-> <<0, 1>>]
                          ELSE [ok |-> TRUE, q |-> QMod(x.q, y.q)]
           [] op = "^" -> IF y.q[2] # 1 \/ y.q[1] < 0 \/ y.q[1] > MaxPower
                             \/ Abs(x.q[1]) > MaxBase \/ x.q[2] > MaxBase
                          THEN [ok |-> FALSE, q |-> <<0, 1>>]
                          ELSE [ok |-> TRUE, q |-> QPow(x.q, y.q[1])]

Num(n) == [ok |-> TRUE, q |-> <<n, 1>>]

\* the value of an expression: the parenthesis first
Value(e) ==
    CASE e.shape \in {"ab", "(ab)"} -> Apply(e.op1, Num(e.a), Num(e.b))
      [] e.shape = "(ab)c" -> Apply(e.op2, Apply(e.op1, Num(e.a), Num(e.b)), Num(e.c))
      [] e.shape = "a(bc)" -> Apply(e.op1, Num(e.a), Apply(e.op2, Num(e.b), Num(e.c)))

IsInteger(v) == v.ok /\ v.q[2] = 1

InitMath ==
    /\ ExecutorAtRest
    /\ ValidatorAtRest
    /\ FilterAtRest
    /\ InterpolationAtRest
    /\ TaskAtRest
    /\ ChatAtRest
    /\ \E e \in Trees : min = [text |-> Text(e), tree |-> e]
    /\ mpc = "start"
    /\ mout = [ret |-> "", value |-> 0]

\* a math task (1723-1726): eval_math of its input
EvalMath ==
    /\ mpc = "start"
    /\ mout' = eval_math(EmptyDict, min.text)
    /\ mpc' = "evaluated"
    /\ UNCHANGED <<min, evars, vvars, fvars, ivars, tvars, cvars>>

NextMath == EvalMath

SpecMath == InitMath /\ [][NextMath]_vars

\* C21: every expression over + - * / % ^ with integer operands and
\* parentheses anywhere, the first character included, whose value is an
\* integer is evaluated by eval_math to that integer
C21_ArithmeticSound ==
    mpc = "evaluated" /\ IsInteger(Value(min.tree))
        => mout = [ret |-> "value", value |-> Value(min.tree).q[1]]

\* the same for the expressions without '^' and without a parenthesis at
\* the front
C21_SoundWithoutCaretAndFront ==
    /\ mpc = "evaluated"
    /\ IsInteger(Value(min.tree))
    /\ "^" \notin Chars(min.text)
    /\ min.text[1] # "("
    => mout = [ret |-> "value", value |-> Value(min.tree).q[1]]

\* ------------------------------------------------ list_index, list_slice
\* the longest list and the items of the lists
MaxList == 3
Items == <<A, B, <<"c">>>>
Lists == {SubSeq(Items, 1, n) : n \in 0..MaxList}

\* an index of a task: an int, or the text that writes it
Index(type, n) == [type |-> type, n |-> n, text |-> str(Int_(n))]
Indexes == {Index(type, n) : type \in {"int", "str"},
                             n \in (-(2 * MaxList + 1))..(MaxList + 1)}
NoIndex == Index("int", 0)

\* int(s) of a text: an optional sign and digits
int(s) ==
    LET digits == IF s # <<>> /\ s[1] \in {"-", "+"} THEN Tail(s) ELSE s
    IN  IF digits = <<>> \/ \E i \in 1..Len(digits) : digits[i] \notin DigitChars
        THEN [ret |-> "ValueError", value |-> 0]
        ELSE [ret |-> "value",
              value |-> IF s[1] = "-" THEN -Decimal(digits) ELSE Decimal(digits)]

\* _list[k] of python: k from -len to len - 1, or IndexError
getitem(list, k) ==
    IF k >= 0 /\ k < Len(list) THEN [ret |-> "value", value |-> list[k + 1]]
    ELSE IF k < 0 /\ k >= -Len(list)
    THEN [ret |-> "value", value |-> list[Len(list) + k + 1]]
    ELSE [ret |-> "IndexError", value |-> <<>>]

\* where a bound of a python slice falls in a list of length n
clamp(k, n) ==
    IF k < 0 THEN Max(k + n, 0) ELSE IF k > n THEN n ELSE k

\* _list[p:q] of python
getslice(list, p, q) ==
    slice(list, clamp(p, Len(list)), clamp(q, Len(list)))

\* what a task leaves: what execute_task returned or raised, and the inserts
Left_(ret, inserts) == [ret |-> ret, inserts |-> inserts]

\* py_index of list_index (1379-1386)
py_index(list, index) ==
    IF index > 0 THEN [ret |-> "value", value |-> index - 1]
    ELSE IF index < 0 THEN [ret |-> "value", value |-> Len(list) + index]
    ELSE [ret |-> "Exception", value |-> 0]

\* list_index (1376-1388): the index is wrapped from the tail once by
\* py_index and a second time by python
list_index(task, inserts) ==
    LET index == IF task.index.type = "str" THEN int(task.index.text)
                 ELSE [ret |-> "value", value |-> task.index.n]
        at == py_index(task.list, index.value)
        item == getitem(task.list, at.value)
    IN  IF index.ret # "value" THEN Left_(index.ret, inserts)
        ELSE IF at.ret # "value" THEN Left_(at.ret, inserts)
        ELSE IF item.ret # "value" THEN Left_(item.ret, inserts)
        ELSE Left_("None", Put(inserts, task.output_name, item.value))

\* py_index of list_slice (1396-1407); the last branch is never taken and
\* None is never returned
py_slice_index(list, index, right) ==
    IF index > 0 THEN [ret |-> "value", value |-> index - 1]
    ELSE IF index < 0 THEN [ret |-> "value", value |-> Len(list) + index]
    ELSE IF right THEN [ret |-> "value", value |-> 0]
    ELSE [ret |-> "Exception", value |-> 0]

\* list_slice (1390-1409): an index that is a text is a mathematical
\* expression
list_slice(task, inserts) ==
    LET Bound_(index) == IF index.type = "str" THEN eval_math(inserts, index.text)
                         ELSE [ret |-> "value", value |-> index.n]
        Slice(from_index, to_index, p, q) ==
            IF from_index.ret # "value" THEN Left_(from_index.ret, inserts)
            ELSE IF to_index.ret # "value" THEN Left_(to_index.ret, inserts)
            ELSE IF p.ret # "value" THEN Left_(p.ret, inserts)
            ELSE Left_("None", Put(inserts, task.output_name,
                                   getslice(task.list, p.value, q.value + 1)))
        Indexed(index) ==
            Slice(index[1], index[2], py_slice_index(task.list, index[1].value, FALSE),
                  py_slice_index(task.list, index[2].value, TRUE))
    IN  Indexed([i \in 1..2 |-> Bound_(IF i = 1 THEN task.from_index ELSE task.to_index)])

ListTasks ==
    [cmd : {"list_index"}, list : Lists, index : Indexes,
     from_index : {NoIndex}, to_index : {NoIndex}, output_name : {"out"}]
    \cup [cmd : {"list_slice"}, list : Lists, index : {NoIndex},
          from_index : Indexes, to_index : Indexes, output_name : {"out"}]

InitList ==
    /\ ExecutorAtRest
    /\ ValidatorAtRest
    /\ FilterAtRest
    /\ InterpolationAtRest
    /\ MathAtRest
    /\ ChatAtRest
    /\ tin \in ListTasks
    /\ tpc = "start"
    /\ tout = Left_("", EmptyDict)

\* execute_task of a list_index task
ListIndex ==
    /\ tpc = "start" /\ tin.cmd = "list_index"
    /\ tout' = list_index(tin, tout.inserts)
    /\ tpc' = "done"
    /\ UNCHANGED <<tin, evars, vvars, fvars, ivars, mvars, cvars>>

\* execute_task of a list_slice task
ListSlice ==
    /\ tpc = "start" /\ tin.cmd = "list_slice"
    /\ tout' = list_slice(tin, tout.inserts)
    /\ tpc' = "done"
    /\ UNCHANGED <<tin, evars, vvars, fvars, ivars, mvars, cvars>>

NextList ==
    \/ ListIndex
    \/ ListSlice

SpecList == InitList /\ [][NextList]_vars

Bound(key) == key \in DOMAIN tout.inserts
Failed == tout.ret # "None" /\ ~Bound("out")

\* C22: for a list of length n, list_index with 1 <= i <= n binds the i-th
\* element, i = -1 binds the last element, and i = 0 or any i with
\* |i| > n, positive or negative, is an error that leaves output_name
\* unbound
C22_ListIndex ==
    tpc = "done" /\ tin.cmd = "list_index" =>
        LET n == Len(tin.list)
            i == tin.index.n
        IN  /\ 1 <= i /\ i <= n =>
                 tout.ret = "None" /\ Bound("out") /\ tout.inserts["out"] = tin.list[i]
            /\ i = -1 /\ n >= 1 =>
                 tout.ret = "None" /\ Bound("out") /\ tout.inserts["out"] = tin.list[n]
            /\ i = 0 \/ Abs(i) > n => Failed

\* the position from the front that a bound of a slice names
FromFront(i, n) == IF i > 0 THEN i ELSE n + 1 + i

\* C23: for a list of length n, list_slice with bounds a and b that name
\* the positions a' <= b' of the list, from the front (1..n) or from the
\* tail (-1 is the last element), binds the elements a'..b'; to_index = 0
\* binds the empty list for every from_index; from_index = 0 is an error
C23_ListSlice ==
    tpc = "done" /\ tin.cmd = "list_slice" =>
        LET n == Len(tin.list)
            a == tin.from_index.n
            b == tin.to_index.n
            InList(i) == i # 0 /\ Abs(i) <= n
        IN  /\ InList(a) /\ InList(b) /\ FromFront(a, n) <= FromFront(b, n) =>
                 /\ tout.ret = "None" /\ Bound("out")
                 /\ tout.inserts["out"] = SubSeq(tin.list, FromFront(a, n), FromFront(b, n))
            /\ b = 0 /\ a # 0 =>
                 tout.ret = "None" /\ Bound("out") /\ tout.inserts["out"] = <<>>
            /\ a = 0 => Failed

\* --------------------------------- is_wildcard_match, get_wildcard_matches
\* the longest wildcard pattern and the longest text matched against it
MaxPattern == 3

Newline == "\n"

\* the characters re.escape puts a backslash before, among those of the
\* patterns here
re_special == {Newline, "(", ")", ".", "*", "^", "$", "\\"}

\* re.escape(s)
RECURSIVE re_escape(_)
re_escape(s) ==
    IF s = <<>> THEN <<>>
    ELSE (IF s[1] \in re_special THEN <<"\\", s[1]>> ELSE <<s[1]>>)
         \o re_escape(Tail(s))

\* '^' + re.escape(wildcard_s.replace('*', M)).replace(M, '(.*)') + '$',
\* M the three characters that stand for the wildcard (537, 541)
wildcard_pattern(wildcard_s) ==
    <<"^">> \o replace(re_escape(replace(wildcard_s, <<"*">>, Mark)),
                       Mark, <<"(", ".", "*", ")">>)
            \o <<"$">>

NoMatch == [ok |-> FALSE, groups |-> <<>>, left |-> 0]

\* the match of a pattern made of '^', '$', escaped characters, plain
\* characters and groups '(.*)' at the front of s, with re.DOTALL: a
\* group takes the longest text that lets the rest match, '$' matches at
\* the end and before a newline that ends the text; left is how much of s
\* is behind the match
RECURSIVE re_match_(_, _)
re_match_(pattern, s) ==
    IF pattern = <<>> THEN [ok |-> TRUE, groups |-> <<>>, left |-> Len(s)]
    ELSE IF pattern[1] = "^" THEN re_match_(Tail(pattern), s)
    ELSE IF pattern[1] = "$"
    THEN IF s = <<>> \/ s = <<Newline>> THEN re_match_(Tail(pattern), s) ELSE NoMatch
    ELSE IF pattern[1] = "("
    THEN LET behind == SubSeq(pattern, 5, Len(pattern))
             takes == {k \in 0..Len(s) :
                          re_match_(behind, SubSeq(s, k + 1, Len(s))).ok}
         IN  IF takes = {} THEN NoMatch
             ELSE LET k == CHOOSE k \in takes : \A j \in takes : j <= k
                      r == re_match_(behind, SubSeq(s, k + 1, Len(s)))
                  IN  [r EXCEPT !.groups = <<SubSeq(s, 1, k)>> \o @]
    ELSE LET escaped == pattern[1] = "\\"
             c == IF escaped THEN pattern[2] ELSE pattern[1]
             behind == SubSeq(pattern, IF escaped THEN 3 ELSE 2, Len(pattern))
         IN  IF s # <<>> /\ s[1] = c THEN re_match_(behind, Tail(s)) ELSE NoMatch

\* re.match(pattern, s, re.DOTALL)
re_match(pattern, s) == re_match_(pattern, s)

\* is_wildcard_match(wildcard_s, s)
is_wildcard_match(wildcard_s, s) == re_match(wildcard_pattern(wildcard_s), s).ok

\* re.findall(pattern, s, re.DOTALL) of a pattern that starts with '^':
\* the one match at the front of s if there is one; the match is its text
\* when the pattern has no group, its group when it has one, the tuple of
\* its groups when it has more
findall(pattern, s) ==
    LET m == re_match(pattern, s)
    IN  IF ~m.ok THEN <<>>
        ELSE IF m.groups = <<>>
        THEN <<[tuple |-> FALSE, v |-> <<SubSeq(s, 1, Len(s) - m.left)>>]>>
        ELSE <<[tuple |-> Len(m.groups) > 1, v |-> m.groups]>>

\* get_wildcard_matches(wildcard_s, s): the tuples are extended into the
\* result, the texts appended to it
RECURSIVE flatten(_)
flatten(X) == IF X = <<>> THEN <<>> ELSE X[1].v \o flatten(Tail(X))

get_wildcard_matches(wildcard_s, s) == flatten(findall(wildcard_pattern(wildcard_s), s))

WildcardCharacters == {"a", "*", Newline}
WildcardTexts ==
    UNION {[1..n -> WildcardCharacters] : n \in 0..MaxPattern}

\* the patterns, one of them with the characters that stand for the wildcard
WildcardPatterns == WildcardTexts \cup {<<"a">> \o Mark}

InitWildcard ==
    /\ ExecutorAtRest
    /\ ValidatorAtRest
    /\ FilterAtRest
    /\ InterpolationAtRest
    /\ MathAtRest
    /\ ChatAtRest
    /\ tin \in [wildcard_s : WildcardPatterns, s : WildcardTexts \cup {<<"a", "a">> }]
    /\ tpc = "start"
    /\ tout = [matched |-> FALSE, matches |-> <<>>]

\* is_wildcard_match(k, current) of replace_map (1582)
IsWildcardMatch ==
    /\ tpc = "start"
    /\ tout' = [tout EXCEPT !.matched = is_wildcard_match(tin.wildcard_s, tin.s)]
    /\ tpc' = "matched"
    /\ UNCHANGED <<tin, evars, vvars, fvars, ivars, mvars, cvars>>

\* get_wildcard_matches(k, current) of replace_map (1583), after a match
GetWildcardMatches ==
    /\ tpc = "matched" /\ tout.matched
    /\ tout' = [tout EXCEPT !.matches = get_wildcard_matches(tin.wildcard_s, tin.s)]
    /\ tpc' = "captured"
    /\ UNCHANGED <<tin, evars, vvars, fvars, ivars, mvars, cvars>>

NextWildcard ==
    \/ IsWildcardMatch
    \/ GetWildcardMatches

SpecWildcard == InitWildcard /\ [][NextWildcard]_vars

\* s is p with each '*' replaced by some text, every other character of p
\* as it is, and nothing before or behind
RECURSIVE Instance(_, _)
Instance(p, s) ==
    IF p = <<>> THEN s = <<>>
    ELSE IF p[1] = "*"
    THEN \E k \in 0..Len(s) : Instance(Tail(p), SubSeq(s, k + 1, Len(s)))
    ELSE s # <<>> /\ s[1] = p[1] /\ Instance(Tail(p), Tail(s))

\* C28: is_wildcard_match(p, s) is true iff s is p with each '*' replaced
\* by some text, possibly empty, possibly with newlines, and with no
\* character more at the front or at the end, a newline at the end included
C28_MatchIffInstance ==
    tpc \in {"matched", "captured"} =>
        (tout.matched <=> Instance(tin.wildcard_s, tin.s))

\* C29: whenever p matches s, get_wildcard_matches(p, s) has one captured
\* text for each '*' of p, none when p has no '*'
C29_OneCapturePerStar ==
    tpc = "captured" => Len(tout.matches) = count(tin.wildcard_s, <<"*">>)

\* ------------------------------------------------- goto_map, replace_map
\* the longest target_maps and wildcard_maps, and the most rounds of a
\* replace_map with repeat_until_done that are followed
MaxMaps == 2
MaxRepeat == 3

NULL == <<"N", "U", "L", "L">>
CONTINUE == <<"C", "O", "N", "T", "I", "N", "U", "E">>
\* a text with a key that is in no inserts
Missing == <<"{", "m", "}">>
Fallback == <<"f">>
Other == <<"o">>

\* the inserts the maps are executed with
MapInserts == (<<"k">> :> A) @@ (<<"1">> :> <<"v">>) @@ (<<"u">> :> <<"{">>)

\* texts with unbalanced delimiters: a start without a stop, a key whose
\* value brings a start without a stop, and a stop without a start
OpenOnly == <<"{", "a">>
OpensLater == <<"a", "{", "u", "}">>
CloseOnly == <<"a", "}">>
UnbalancedTexts == {OpenOnly, OpensLater, CloseOnly}

\* [str(interpolate_inserts(inserts, t)) for t in texts]: the values, or
\* what the first interpolation that fails raises
RECURSIVE interpolate_each(_, _)
interpolate_each(inserts, texts) ==
    IF texts = <<>> THEN [ret |-> "value", values |-> <<>>]
    ELSE LET r == interpolate(inserts, texts[1])
             rest == interpolate_each(inserts, Tail(texts))
         IN  IF r.ret # "value" THEN [ret |-> r.ret, values |-> <<>>]
             ELSE IF rest.ret # "value" THEN rest
             ELSE [ret |-> "value", values |-> <<r.value>> \o rest.values]

\* the places of a list where the test holds
Where(list, Test(_)) == {i \in 1..Len(list) : Test(list[i])}

\* what a goto_map leaves
Went(ret, target, inserts) == [ret |-> ret, goto_target |-> target, inserts |-> inserts]

\* goto_map (1542-1564): the text is interpolated and its
\* InterpolationException caught; every key and then every value of
\* target_maps is interpolated; the target is the value at 'NULL' after an
\* exception, the value of the first key that matches otherwise
goto_map(task, inserts) ==
    LET Target(value_text, target_keys, target_values, at) ==
            IF value_text.ret \notin {"value", "InterpolationException"}
            THEN Went(value_text.ret, <<>>, inserts)
            ELSE IF target_keys.ret # "value" THEN Went(target_keys.ret, <<>>, inserts)
            ELSE IF target_values.ret # "value"
            THEN Went(target_values.ret, <<>>, inserts)
            ELSE IF at = {} THEN Went("AssertionError", <<>>, inserts)
            ELSE IF target_values.values[SetMin(at)] # CONTINUE
            THEN Went("goto_target", target_values.values[SetMin(at)], inserts)
            ELSE Went("None", <<>>, inserts)
        Chosen(value_text, targets) ==
            LET interp_error == value_text.ret = "InterpolationException"
                IsNull(key) == key = NULL
                Matches(key) == is_wildcard_match(key, value_text.value)
            IN  Target(value_text, targets[1], targets[2],
                       IF targets[1].ret # "value" THEN {}
                       ELSE IF interp_error THEN Where(targets[1].values, IsNull)
                       ELSE Where(targets[1].values, Matches))
    IN  Chosen(interpolate(inserts, task.text),
               [side \in 1..2 |->
                   interpolate_each(inserts,
                                    [i \in 1..Len(task.target_maps) |->
                                        IF side = 1 THEN task.target_maps[i].key
                                        ELSE task.target_maps[i].value])])

\* a dictionary with one key, an entry of target_maps or of wildcard_maps
Entry(key, value) == [key |-> key, value |-> value]

Sequences(S, n) == UNION {[1..m -> S] : m \in 0..n}

TargetMaps ==
    Sequences({Entry(key, value) : key \in {NULL, <<"*">>, A, Missing},
                                   value \in {Fallback, Other, CONTINUE, Missing}},
              MaxMaps)

GotoMaps ==
    [cmd : {"goto_map"}, text : {Missing, A, <<"{", "k", "}">>, B} \cup UnbalancedTexts,
     target_maps : TargetMaps, item : {<<>>}, output_name : {<<>>},
     wildcard_maps : {<<>>}, repeat_until_done : {FALSE}]

\* {str(i+1): capture for i, capture in enumerate(matches)}
extra_inserts(matches) ==
    [key \in {Digits(i) : i \in 1..Len(matches)} |->
        matches[CHOOSE i \in 1..Len(matches) : Digits(i) = key]]

\* the loop over wildcard_maps of replace_str (1577-1588): the rules in
\* order, each key interpolated when its turn comes; the first rule whose
\* key matches gives the text, no rule leaves it as it is
RECURSIVE apply_rules(_, _, _)
apply_rules(inserts, wildcard_maps, current) ==
    LET Value_of(v) == [ret |-> v.ret, value |-> v.value]
        Rule(k) ==
            IF k.ret # "value" THEN [ret |-> k.ret, value |-> <<>>]
            ELSE IF is_wildcard_match(k.value, current)
            THEN Value_of(interpolate(
                              Update(inserts,
                                     extra_inserts(get_wildcard_matches(k.value, current))),
                              wildcard_maps[1].value))
            ELSE apply_rules(inserts, Tail(wildcard_maps), current)
    IN  IF wildcard_maps = <<>> THEN [ret |-> "value", value |-> current]
        ELSE Rule(interpolate(inserts, wildcard_maps[1].key))

\* replace_str (1571-1595): a round interpolates the text and applies the
\* rules; with repeat_until_done the rounds go on until one changes
\* nothing, for ever when every round changes the text
RECURSIVE replace_str(_, _, _, _, _)
replace_str(inserts, task, last, text, fuel) ==
    LET Replaced(replaced) ==
            IF replaced.ret # "value" THEN replaced
            ELSE IF last = replaced.value \/ ~task.repeat_until_done THEN replaced
            ELSE IF fuel = 0 THEN [ret |-> "loops", value |-> <<>>]
            ELSE replace_str(inserts, task, replaced.value, replaced.value, fuel - 1)
        Round(current) ==
            IF current.ret # "value" THEN [ret |-> current.ret, value |-> <<>>]
            ELSE Replaced(apply_rules(inserts, task.wildcard_maps, current.value))
    IN  Round(interpolate(inserts, text))

\* recursive_replace (1597-1609) of a text: a simple insert key is looked
\* up and what it names is replaced
RECURSIVE recursive_replace(_, _, _, _)
recursive_replace(inserts, task, x, fuel) ==
    LET insertkey == get_simple_insertkey(x)
        subkey == get_simple_insertkey(insertkey.key)
        got == IF Truthy(subkey) THEN get_interpdata(inserts, subkey.key)
               ELSE get_interpdata(inserts, insertkey.key)
    IN  IF ~Truthy(insertkey) THEN replace_str(inserts, task, x, x, MaxRepeat)
        ELSE IF got.ret # "value" THEN [ret |-> got.ret, value |-> <<>>]
        ELSE IF fuel = 0 THEN [ret |-> "RecursionError", value |-> <<>>]
        ELSE recursive_replace(inserts, task,
                               IF Truthy(subkey)
                               THEN insert_start \o got.value \o insert_stop
                               ELSE got.value,
                               fuel - 1)

\* replace_map (1566-1626): an InterpolationException binds the value of
\* the rule whose key is 'NULL', as it is written, or fails
replace_map(task, inserts) ==
    LET nulls == {i \in 1..Len(task.wildcard_maps) : task.wildcard_maps[i].key = NULL}
        Bound_to(output_name, item) ==
            IF output_name.ret # "value" THEN Went(output_name.ret, <<>>, inserts)
            ELSE IF item.ret = "InterpolationException"
            THEN IF nulls = {} THEN Went("AssertionError", <<>>, inserts)
                 ELSE Went("None", <<>>,
                           Put(inserts, output_name.value,
                               task.wildcard_maps[SetMin(nulls)].value))
            ELSE IF item.ret # "value" THEN Went(item.ret, <<>>, inserts)
            ELSE Went("None", <<>>, Put(inserts, output_name.value, item.value))
    IN  Bound_to(interpolate(inserts, task.output_name),
                 recursive_replace(inserts, task, task.item, MaxSubst))

Out == <<"o", "u", "t">>

WildcardMaps ==
    Sequences({Entry(key, value) : key \in {A, <<"a", "*">>, <<"*">>, Missing, NULL},
                                   value \in {<<"x">>, <<"x", "{", "1", "}">>, Missing}},
              MaxMaps)

\* the example: item 'foo-42' with the rule {'foo-*': 'id={1}'}
FooItem == <<"f", "o", "o", "-", "4", "2">>
FooMaps == <<Entry(<<"f", "o", "o", "-", "*">>, <<"i", "d", "=", "{", "1", "}">>)>>

ReplaceMaps ==
    [cmd : {"replace_map"}, text : {<<>>}, target_maps : {<<>>},
     item : {A, <<"a", Newline>>, <<"a", "b">>, Missing, <<"{", "k", "}">>},
     output_name : {Out}, wildcard_maps : WildcardMaps,
     repeat_until_done : BOOLEAN]
    \cup [cmd : {"replace_map"}, text : {<<>>}, target_maps : {<<>>},
          item : {FooItem}, output_name : {Out}, wildcard_maps : {FooMaps},
          repeat_until_done : {FALSE}]
    \cup [cmd : {"replace_map"}, text : {<<>>}, target_maps : {<<>>},
          item : UnbalancedTexts, output_name : {Out}, wildcard_maps : WildcardMaps,
          repeat_until_done : {FALSE}]

InitMap ==
    /\ ExecutorAtRest
    /\ ValidatorAtRest
    /\ FilterAtRest
    /\ InterpolationAtRest
    /\ MathAtRest
    /\ ChatAtRest
    /\ tin \in GotoMaps \cup ReplaceMaps
    /\ tpc = "start"
    /\ tout = Went("", <<>>, MapInserts)

\* execute_task of a goto_map task
GotoMap ==
    /\ tpc = "start" /\ tin.cmd = "goto_map"
    /\ tout' = goto_map(tin, tout.inserts)
    /\ tpc' = "done"
    /\ UNCHANGED <<tin, evars, vvars, fvars, ivars, mvars, cvars>>

\* execute_task of a replace_map task
ReplaceMap ==
    /\ tpc = "start" /\ tin.cmd = "replace_map"
    /\ tout' = replace_map(tin, tout.inserts)
    /\ tpc' = "done"
    /\ UNCHANGED <<tin, evars, vvars, fvars, ivars, mvars, cvars>>

NextMap ==
    \/ GotoMap
    \/ ReplaceMap

SpecMap == InitMap /\ [][NextMap]_vars

Faults(text) == interpolate(MapInserts, text).ret = "InterpolationException"
Interpolates(text) == interpolate(MapInserts, text).ret = "value"
Value_(text) == interpolate(MapInserts, text).value

\* the task redirects to the target, or goes on when the target is CONTINUE
RedirectsTo(target) ==
    IF target = CONTINUE THEN tout.ret = "None"
    ELSE tout.ret = "goto_target" /\ tout.goto_target = target

\* C24: when the interpolation of the text of a goto_map raises an
\* interpolation fault, the task redirects to the value of the entry whose
\* key is 'NULL', and fails when there is no such entry
C24_NullOnFault ==
    tpc = "done" /\ tin.cmd = "goto_map" /\ Faults(tin.text) =>
        LET nulls == {i \in 1..Len(tin.target_maps) : tin.target_maps[i].key = NULL}
            fallback == tin.target_maps[SetMin(nulls)].value
        IN  /\ nulls # {} /\ Interpolates(fallback) => RedirectsTo(Value_(fallback))
            /\ nulls = {} => tout.ret \notin {"None", "goto_target"}

\* the first entry of the maps whose key, interpolated, has the text as an
\* instance, the keys before it interpolated without a fault; 0 when there
\* is none
FirstMatch(maps, text) ==
    LET hits == {i \in 1..Len(maps) :
                    /\ \A j \in 1..i : Interpolates(maps[j].key)
                    /\ Instance(Value_(maps[i].key), text)}
    IN  IF hits = {} THEN 0 ELSE SetMin(hits)

\* C30: the keys of a goto_map are interpolated as they are needed and the
\* first match wins: the task redirects to the value of the first entry
\* whose interpolated key matches the interpolated text, whatever the
\* entries behind it are, a fault in a key or value of theirs included
C30_FirstMatchWins ==
    tpc = "done" /\ tin.cmd = "goto_map" /\ Interpolates(tin.text) =>
        LET i == FirstMatch(tin.target_maps, Value_(tin.text))
        IN  i # 0 /\ Interpolates(tin.target_maps[i].value) =>
                RedirectsTo(Value_(tin.target_maps[i].value))

\* the captures of a match: one for each '*' of the pattern
Captures(p, s) == IF count(p, <<"*">>) = 0 THEN <<>> ELSE get_wildcard_matches(p, s)

\* C25: replace_map applies the first rule whose interpolated key matches
\* the interpolated item, interpolates the value of the rule with the
\* captures of the match as the keys '1', '2', ... and binds the result to
\* output_name; item 'foo-42' with the rule {'foo-*': 'id={1}'} gives
\* 'id=42'
C25_FirstRuleApplied ==
    /\ tpc = "done" /\ tin.cmd = "replace_map" /\ ~tin.repeat_until_done
    /\ Interpolates(tin.item)
    =>
        LET item == Value_(tin.item)
            i == FirstMatch(tin.wildcard_maps, item)
            rule == tin.wildcard_maps[i]
            with == Update(MapInserts, extra_inserts(Captures(Value_(rule.key), item)))
            result == interpolate(with, rule.value)
        IN  i # 0 /\ result.ret = "value" =>
                /\ tout.ret = "None"
                /\ Out \in DOMAIN tout.inserts
                /\ tout.inserts[Out] = result.value

\* the example of C25 alone
C25_Example ==
    tpc = "done" /\ tin.item = FooItem =>
        tout.ret = "None" /\ tout.inserts[Out] = <<"i", "d", "=", "4", "2">>

\* ------------------------------------------------------------ chat tasks
\* the longest reply of which every text is tried, and the attempts that
\* are counted
MaxReply == 2
MaxAttempts == 2

\* inverted_filter(): mode_is_shown = [True], buffer = [""]
FreshHide == [mode_is_shown |-> TRUE, buffer |-> <<>>]

\* update of inverted_filter (filter.py 66-87): the closure after the call
\* and what the call returns; next_str is read before the toggle
inverted_filter(cfg, h, chunk) ==
    LET buffer0 == h.buffer \o chunk
        next_str == IF h.mode_is_shown THEN cfg.start_str ELSE cfg.stop_str
        toggle == startswith(buffer0, next_str) /\ next_str # <<>>
        buffer1 == IF toggle THEN slice(buffer0, Len(next_str), Len(buffer0))
                   ELSE buffer0
        mode == IF toggle THEN ~h.mode_is_shown ELSE h.mode_is_shown
        sb == safebelow(buffer1, next_str)
    IN  [f |-> [mode_is_shown |-> mode, buffer |-> slice(buffer1, sb, Len(buffer1))],
         ret |-> IF mode THEN slice(buffer1, 0, sb) ELSE <<>>]

Whitespace == {" ", Newline}

\* o.strip()
RECURSIVE strip(_)
strip(o) ==
    IF o # <<>> /\ o[1] \in Whitespace THEN strip(Tail(o))
    ELSE IF o # <<>> /\ o[Len(o)] \in Whitespace THEN strip(SubSeq(o, 1, Len(o) - 1))
    ELSE o

\* the fences of the chat tasks: what is between '[' and ']' is hidden,
\* what is between '<' and '>' is an output
Extract(n_outputs) ==
    [start_str |-> <<"<">>, stop_str |-> <<">">>, enumerate_outputs |-> n_outputs > 1]
Hide == [start_str |-> <<"[">>, stop_str |-> <<"]">>]

\* n_outputs is 1, 2 or -1 for any number of outputs
ChatTasks == [n_outputs : {-1, 1, 2}, shown : BOOLEAN, output_name : {Out}]

\* what the model answers: every text of up to MaxReply characters, and
\* some longer ones
Replies ==
    UNION {[1..n -> {"[", "]", "<", ">", "s"}] : n \in 0..MaxReply}
    \cup {<<"[", "<", "s", ">", "]">>, <<"<", "[", "s", "]", ">">>,
          <<"[", "s", "]", "<", "x", ">">>, <<"<", "x", ">", "<", "x", ">">>,
          <<"<", " ", "x", " ", ">">>}

NotStreaming ==
    [pc |-> "start", attempt |-> 0, reply |-> <<>>, i |-> 0, raw |-> <<>>,
     extract |-> FreshFilter, hide |-> FreshHide, visual_output |-> <<>>]

\* what the task has done: what it returned, the inserts and the output of
\* the state, whether it announced a new attempt, and what the call of
\* chat that has just returned was given and gave back; earlier tasks have
\* printed 'p'
Printed == <<"p">>

NoChat ==
    [ret |-> "", inserts |-> EmptyDict, output |-> Printed, calls |-> 0,
     raw |-> <<>>, outputs |-> <<>>, visual_output |-> <<>>, notices |-> 0]

InitChat ==
    /\ ExecutorAtRest
    /\ ValidatorAtRest
    /\ FilterAtRest
    /\ InterpolationAtRest
    /\ MathAtRest
    /\ TaskAtRest
    /\ cin \in ChatTasks
    /\ cst = NotStreaming
    /\ cout = NoChat

\* chat (629-636): the completion is asked for and the two filters are made
CreateCompletion ==
    /\ cin # <<>> /\ cst.pc = "start"
    /\ \E reply \in Replies :
          cst' = [NotStreaming EXCEPT !.pc = "streaming", !.attempt = cst.attempt,
                                      !.reply = reply]
    /\ cout' = [cout EXCEPT !.calls = 0, !.raw = <<>>, !.outputs = <<>>,
                            !.visual_output = <<>>]
    /\ UNCHANGED <<cin, evars, vvars, fvars, ivars, mvars, tvars>>

\* the body of the loop over the stream (637-651): the delta goes to the
\* extract filter, and what that returns goes to the hide filter when the
\* task is shown
Delta(width) ==
    /\ cin # <<>> /\ cst.pc = "streaming" /\ cst.i < Len(cst.reply)
    /\ LET delta == slice(cst.reply, cst.i, cst.i + width)
           fragment == call(Extract(cin.n_outputs), cst.extract, delta)
           visual_fragment == inverted_filter(Hide, cst.hide, fragment.ret)
       IN  cst' = [cst EXCEPT
                      !.i = IF cst.i + width < Len(cst.reply) THEN cst.i + width
                            ELSE Len(cst.reply),
                      !.raw = @ \o delta,
                      !.extract = fragment.f,
                      !.hide = IF cin.shown THEN visual_fragment.f ELSE @,
                      !.visual_output = IF cin.shown THEN @ \o visual_fragment.ret
                                        ELSE @]
    /\ UNCHANGED <<cin, cout, evars, vvars, fvars, ivars, mvars, tvars>>

ReceiveDelta == \E width \in 1..MaxChunk : Delta(width)

\* an end of chat after which an attempt that is given up leaves what it
\* showed in the output of the state
ChatReturns_Keeps ==
    /\ cin # <<>> /\ cst.pc = "streaming" /\ cst.i = Len(cst.reply)
    /\ LET outputs == cst.extract.outputs
           output == [k \in 1..Len(outputs) |-> strip(outputs[k])]
           visual_output == cst.visual_output
                            \o (IF cin.shown THEN <<Newline>> ELSE <<>>)
           returned == [cout EXCEPT !.calls = 1, !.raw = cst.raw, !.outputs = output,
                                    !.visual_output = visual_output,
                                    !.output = @ \o visual_output]
       IN  IF Len(output) < cin.n_outputs
           THEN /\ cout' = [returned EXCEPT !.notices = 1]
                /\ cst' = [NotStreaming EXCEPT
                              !.attempt = IF cst.attempt < MaxAttempts
                                          THEN cst.attempt + 1 ELSE MaxAttempts]
           ELSE /\ cout' = [returned EXCEPT
                               !.ret = "None",
                               !.inserts = Put(@, cin.output_name,
                                               IF Len(output) = 1 THEN output[1]
                                               ELSE output)]
                /\ cst' = [cst EXCEPT !.pc = "done"]
    /\ UNCHANGED <<cin, evars, vvars, fvars, ivars, mvars, tvars>>

\* the end of chat (703-713) and what the task does with what it returns
\* (1776-1788): too few outputs are announced and the task asks again,
\* otherwise the output is bound, one output as a text, more as a list
ChatReturns ==
    /\ cin # <<>> /\ cst.pc = "streaming" /\ cst.i = Len(cst.reply)
    /\ LET outputs == cst.extract.outputs
           output == [k \in 1..Len(outputs) |-> strip(outputs[k])]
           visual_output == cst.visual_output
                            \o (IF cin.shown THEN <<Newline>> ELSE <<>>)
           returned == [cout EXCEPT !.calls = 1, !.raw = cst.raw, !.outputs = output,
                                    !.visual_output = visual_output]
       IN  IF Len(output) < cin.n_outputs
           THEN /\ cout' = [returned EXCEPT !.notices = 1]
                /\ cst' = [NotStreaming EXCEPT
                              !.attempt = IF cst.attempt < MaxAttempts
                                          THEN cst.attempt + 1 ELSE MaxAttempts]
           ELSE /\ cout' = [returned EXCEPT
                               !.ret = "None",
                               !.inserts = Put(@, cin.output_name,
                                               IF Len(output) = 1 THEN output[1]
                                               ELSE output),
                               !.output = @ \o visual_output]
                /\ cst' = [cst EXCEPT !.pc = "done"]
    /\ UNCHANGED <<cin, evars, vvars, fvars, ivars, mvars, tvars>>

NextChat ==
    \/ CreateCompletion
    \/ ReceiveDelta
    \/ ChatReturns

SpecChat == InitChat /\ [][NextChat]_vars

\* the task runs on: no step of it that can be taken is put off for ever
SpecChatLive == SpecChat /\ WF_vars(NextChat)

\* C26: a chat task that keeps receiving fewer outputs than n_outputs
\* stops asking after a bounded number of attempts: every chat task comes
\* to an end
C26_RetriesEnd == <>(cst.pc = "done")

\* the places of a text that are inside a hidden region: behind a
\* hide_start_str and before the hide_stop_str that follows it; a region
\* that is not closed hides nothing
RECURSIVE Hidden(_, _)
Hidden(raw, from) ==
    LET p == find(raw, Hide.start_str, from)
        q == find(raw, Hide.stop_str, p + Len(Hide.start_str))
    IN  IF p = -1 THEN {}
        ELSE IF q = -1 THEN {}
        ELSE ((p + Len(Hide.start_str) + 1)..q) \cup Hidden(raw, q + Len(Hide.stop_str))

OnlyHidden(raw, c) == \A i \in 1..Len(raw) : raw[i] = c => i \in Hidden(raw, 0)

\* C27: the stream goes through the hide filter before the extract filter:
\* text of a hidden region is in no extracted output and not in the text
\* that is shown, and an extract delimiter in a hidden region opens no
\* output, shown or not
C27_HideBeforeExtract ==
    cout.calls > 0 =>
        /\ OnlyHidden(cout.raw, "s") =>
              /\ \A k \in 1..Len(cout.outputs) : "s" \notin Chars(cout.outputs[k])
              /\ "s" \notin Chars(cout.visual_output)
        /\ OnlyHidden(cout.raw, "<") => cout.outputs = <<>>

\* ------------------------------------------- unbalanced delimiters (C31)
\* C31: delimiters that do not balance are an interpolation fault like a
\* missing key: a goto_map whose text has them redirects to the value of
\* its 'NULL' entry, and a replace_map whose item has them binds the value
\* of its 'NULL' rule to output_name, instead of failing
C31_UnbalancedIsFault ==
    tpc = "done" =>
        /\ tin.cmd = "goto_map" /\ tin.text \in UnbalancedTexts =>
              LET nulls == {i \in 1..Len(tin.target_maps) : tin.target_maps[i].key = NULL}
                  fallback == tin.target_maps[SetMin(nulls)].value
              IN  nulls # {} /\ Interpolates(fallback) => RedirectsTo(Value_(fallback))
        /\ tin.cmd = "replace_map" /\ tin.item \in UnbalancedTexts =>
              LET nulls == {i \in 1..Len(tin.wildcard_maps) : tin.wildcard_maps[i].key = NULL}
              IN  nulls # {} =>
                     /\ tout.ret = "None"
                     /\ Out \in DOMAIN tout.inserts
                     /\ tout.inserts[Out] = tin.wildcard_maps[SetMin(nulls)].value

\* the same for the text with a stop and no start, which no assertion of
\* interpolate_inserts meets
C31_CloseOnlyIsFault ==
    tpc = "done" /\ tin.cmd = "goto_map" /\ tin.text = CloseOnly
    /\ tin.target_maps = <<Entry(NULL, Fallback), Entry(<<"*">>, Other)>>
    => RedirectsTo(Fallback)

\* ------------------------------------ gotos of a validated program (C38)
\* C38: in the run of a program that passed validate_program, every goto
\* target that a serial body, a for body or the top-level order has to
\* handle is the name of a label of that same sequence: the search for the
\* label (the min() of 1499-1501, 1675-1677 and 2126-2128) never fails, a
\* label declared in another sequence included
C38_TargetFound ==
    vpc = "ran" => "ValueError" \notin vout.faults

\* ---------------------------------- bodies are interpolated lazily (C34)
\* the first task of the program is a block whose body sets the key k and
\* then prints it, and k is not defined when the block starts
SetsThenUses(program) ==
    /\ program.order[1].cmd \in {"serial", "for", "parallel_wait", "parallel_race"}
    /\ Len(program.order[1].tasks) = 2
    /\ program.order[1].tasks[1] = Set(2, "k", Lit(A))
    /\ program.order[1].tasks[2] = Print_(3, Ref("k"))
    /\ "k" \notin DOMAIN program.inserts

\* C34: the interpolation of a serial, for, parallel_wait or parallel_race
\* task before it is dispatched leaves the fields of its body tasks alone:
\* a key that an earlier body task sets is found by a later one, although
\* it was not defined when the block started
C34_BodiesLazy ==
    vpc = "ran" /\ SetsThenUses(vprog) =>
        "missing_key" \notin vout.faults /\ vout.end = "exited"

C34_witness ==
    /\ vpc = "ran" /\ SetsThenUses(vprog) /\ vout.end = "exited"
    /\ vprog.order[1].cmd = "for"

\* ------------------------------------------- filter.py: inverted_filter
\* the filters that hide: delimiters of two characters and of one
HideFilters ==
    [start_str : {<<"<", ">">>}, stop_str : {<<"/", ">">>},
     enumerate_outputs : {FALSE}, sample : Strings]
    \cup [start_str : {<<"<">>}, stop_str : {<<">">>},
          enumerate_outputs : {FALSE}, sample : Strings]

InitHide ==
    /\ ExecutorAtRest
    /\ CmdsAtRest
    /\ ValidatorAtRest
    /\ InterpolationAtRest
    /\ fin \in HideFilters
    /\ fst = FreshHide
    /\ fout = NothingFed

\* the next chunk of the sample, chunk_width characters or what is left of
\* it, goes to update (filter.py 66-87); what update returns is the delta
FeedHide(chunk_width) ==
    /\ fin # NoFilter
    /\ fout.i < Len(fin.sample)
    /\ LET r == inverted_filter(fin, fst, slice(fin.sample, fout.i, fout.i + chunk_width))
       IN  /\ fst' = r.f
           /\ fout' = [i |-> IF fout.i + chunk_width < Len(fin.sample)
                             THEN fout.i + chunk_width ELSE Len(fin.sample),
                       printed |-> fout.printed \o r.ret,
                       ret |-> r.ret,
                       widths |-> fout.widths \cup {chunk_width}]
    /\ UNCHANGED <<fin, evars, vvars, ivars, cmds>>

FeedHideChunk == \E chunk_width \in 1..MaxChunk : FeedHide(chunk_width)

NextHide == FeedHideChunk

SpecHide == InitHide /\ [][NextHide]_vars

\* s from index from on with every region, from a start_str to the stop_str
\* that follows it, taken out, the delimiters included
RECURSIVE removed(_, _, _, _)
removed(s, start_str, stop_str, from) ==
    LET a == find(s, start_str, from)
        b == find(s, stop_str, a + Len(start_str))
    IN  IF a < 0 \/ b < 0 THEN slice(s, from, Len(s))
        ELSE slice(s, from, a) \o removed(s, start_str, stop_str, b + Len(stop_str))

SampleShown == removed(fin.sample, fin.start_str, fin.stop_str, 0)

\* C37: once a sample whose regions are all closed has been fed to a fresh
\* inverted filter, in chunks of any widths, the deltas put together are
\* the sample with every region from start_str to stop_str removed, but for
\* an end that is held back because it may be the beginning of start_str;
\* and the filter is in the shown mode again
C37_RegionsRemoved ==
    (AllFed /\ SampleRegions.ok) =>
        /\ IsPrefix(fout.printed, SampleShown)
        /\ IsPrefix(SubSeq(SampleShown, Len(fout.printed) + 1, Len(SampleShown)),
                    fin.start_str)
        /\ fst.mode_is_shown

\* the same when every chunk is one character
C37_OneByOne ==
    (AllFed /\ SampleRegions.ok /\ fout.widths \subseteq {1}) =>
        /\ IsPrefix(fout.printed, SampleShown)
        /\ IsPrefix(SubSeq(SampleShown, Len(fout.printed) + 1, Len(SampleShown)),
                    fin.start_str)
        /\ fst.mode_is_shown

\* -------------------------------------------- what a chat task binds (C35)
\* the outputs of the stream of the attempt that has ended, in the order in
\* which the stream opened them, and what the attempt has shown
StreamOutputs == [k \in 1..Len(cst.extract.outputs) |-> strip(cst.extract.outputs[k])]
StreamShown == cst.visual_output \o (IF cin.shown THEN <<Newline>> ELSE <<>>)

MaxCancels == 2

Errors == {"APIError", "ContextError"}

\* str(e) holds 'exceeds the available context size' or 'Context size has
\* been exceeded' (695)
about_context(e) == e = "ContextError"

\* pc: where the coroutine is (suspended at an await, or ended); response:
\* the stream; e: the exception the except clause has caught; hits: the
\* failures and cancellations that have reached the coroutine
NoStream ==
    [pc |-> "start", response |-> "None", e |-> "", hits |-> <<>>, chunks |-> 0,
     ran_out_of_context |-> FALSE, cancels |-> 0]

InitStream ==
    /\ ExecutorAtRest
    /\ ValidatorAtRest
    /\ FilterAtRest
    /\ InterpolationAtRest
    /\ MathAtRest
    /\ TaskAtRest
    /\ cin \in [shown : BOOLEAN]
    /\ cst = NoStream
    /\ cout = [raised |-> "", returned |-> FALSE, logged |-> FALSE]

Frame_Stream == <<cin, evars, vvars, fvars, ivars, mvars, tvars>>

\* except BaseException as e (685-699) from its start: with a response the
\* handler awaits response.close(); without one it logs and either shows
\* the notice (607-609: select_index with no option, which no key ends) or
\* raises e
Caught(e) ==
    LET st == [cst EXCEPT !.e = e, !.hits = Append(@, e),
                          !.cancels = IF e = "CancelledError" THEN @ + 1 ELSE @]
    IN  IF cst.response # "None"
        THEN /\ cst' = [st EXCEPT !.pc = "close"]
             /\ UNCHANGED cout
        ELSE IF about_context(e)
        THEN /\ cst' = [st EXCEPT !.pc = "notice"]
             /\ cout' = [cout EXCEPT !.logged = TRUE]
        ELSE /\ cst' = [st EXCEPT !.pc = "raised"]
             /\ cout' = [cout EXCEPT !.logged = TRUE, !.raised = e]

\* 629-633: await client.chat.completions.create(...)
Create ==
    /\ cin # <<>> /\ cst.pc = "start"
    /\ cst' = [cst EXCEPT !.pc = "create"]
    /\ UNCHANGED cout
    /\ UNCHANGED Frame_Stream

\* the request is answered with a stream, or it fails
CreateReturns ==
    /\ cin # <<>> /\ cst.pc = "create"
    /\ \/ /\ cst' = [cst EXCEPT !.pc = "next", !.response = "open"]
          /\ UNCHANGED cout
       \/ \E e \in Errors : Caught(e)
    /\ UNCHANGED Frame_Stream

\* async for comp in response (637-651): a chunk arrives (IOManager.write
\* does not suspend), the last chunk may say finish_reason = 'length', the
\* stream ends, or it fails
NextChunk ==
    /\ cin # <<>> /\ cst.pc = "next"
    /\ \/ /\ cst.chunks < MaxChunk
          /\ \E length \in BOOLEAN :
                cst' = [cst EXCEPT !.chunks = @ + 1,
                                   !.ran_out_of_context = @ \/ length]
          /\ UNCHANGED cout
       \/ /\ cst' = [cst EXCEPT !.response = "exhausted",
                                !.pc = IF cst.ran_out_of_context THEN "warning"
                                       ELSE "returned"]
          /\ cout' = [cout EXCEPT !.logged = ~cst.ran_out_of_context,
                                  !.returned = ~cst.ran_out_of_context]
       \/ \E e \in Errors : Caught(e)
    /\ UNCHANGED Frame_Stream

\* await response.close() has returned (688-690); then log_messages, the
\* notice when the error is about the context size, and raise e (692-699)
CloseReturns ==
    /\ cin # <<>> /\ cst.pc = "close"
    /\ IF about_context(cst.e)
       THEN /\ cst' = [cst EXCEPT !.response = "closed", !.pc = "notice"]
            /\ cout' = [cout EXCEPT !.logged = TRUE]
       ELSE /\ cst' = [cst EXCEPT !.response = "closed", !.pc = "raised"]
            /\ cout' = [cout EXCEPT !.logged = TRUE, !.raised = cst.e]
    /\ UNCHANGED Frame_Stream

\* task.cancel() while the coroutine is suspended: CancelledError is raised
\* at the await.  In the try block the except clause catches it; at the
\* awaits of the except clause itself (close, notice) and after the try
\* statement (warning, 700-701) nothing does, and it leaves chat
Cancel ==
    /\ cin # <<>> /\ cst.cancels < MaxCancels
    /\ cst.pc \in {"create", "next", "close", "notice", "warning"}
    /\ IF cst.pc \in {"create", "next"}
       THEN Caught("CancelledError")
       ELSE /\ cst' = [cst EXCEPT !.pc = "raised", !.hits = Append(@, "CancelledError"),
                                   !.cancels = @ + 1]
            /\ cout' = [cout EXCEPT !.raised = "CancelledError"]
    /\ UNCHANGED Frame_Stream

NextStream ==
    \/ Create
    \/ CreateReturns
    \/ NextChunk
    \/ CloseReturns
    \/ Cancel

SpecStream == InitStream /\ [][NextStream]_vars

\* the coroutine and the server take their steps; nobody has to press a key
SpecStreamLive ==
    SpecStream /\ WF_vars(Create \/ CreateReturns \/ NextChunk \/ CloseReturns)

\* the stream has been opened and something has failed or was cancelled
FailedOpen == cin # <<>> /\ cst.response # "None" /\ cst.hits # <<>>

\* C36 (closing): when an error or a cancellation leaves a chat whose
\* stream has been opened, the stream has been closed
C36_ClosedFirst ==
    FailedOpen /\ cst.pc = "raised" => cst.response \in {"closed", "exhausted"}

\* C36 (re-raising): an error that has reached chat leaves chat again
C36_Reraised ==
    \A e \in Errors : [](cin # <<>> /\ cst.e = e => <>(cst.pc = "raised"))

\* C36: when a chat fails or is cancelled after its stream has been opened,
\* the stream is closed before the error or the cancellation leaves the
\* task, and the error or the cancellation does leave it: it is raised
\* again and never swallowed
C36_ClosedAndReraised ==
    /\ [](FailedOpen /\ cst.pc = "raised" => cst.response \in {"closed", "exhausted"})
    /\ [](FailedOpen => <>(cst.pc = "raised"))

\* ----------------------------------- cursors of nested blocks (C40, C39)
\* the top-level task that async_main awaits has returned: it is done with
\* a result, neither cancelled nor failed
TopReturned(t) ==
    /\ menu_state.async_task = t
    /\ tasks[t].kind = "exec"
    /\ tasks[t].st = "done"
    /\ tasks[t].result = "ok"

\* C40: whenever a top-level task has returned to the main loop, state holds
\* no key that starts with 'order_index/': every serial and for block has
\* deleted its cursor and its counter, and a parallel_race those of the
\* children it cancelled
C40_NoStaleCursor ==
    \A t \in TaskIds : TopReturned(t) => DOMAIN state.cur = {}

\* the paths of the tasks below the block at path
RECURSIVE Below(_)
Below(path) ==
    UNION {{path \o <<i>>} \cup Below(path \o <<i>>) : i \in 1..Len(TaskAt(order, path).tasks)}

\* the cursor and counter keys of the tasks below the block at path
OwnKeys(path) ==
    UNION {{sub_index_label(runtime_label(order, p)), counter_label(runtime_label(order, p))} :
           p \in Below(path)}

\* task t is about to run the else branch of parallel_race (1467-1477)
RaceCompletes(t) ==
    /\ Executing(t, "resume", "parallel_race")
    /\ Top(tasks[t]).pc = "wait"
    /\ tasks[t].flow.v = "ok"

\* C39: the cleanup of a completing parallel_race removes only cursor keys
\* of the block's own children; the cursor and counter keys of every other
\* block, and the other keys of state, are left as they are
C39_OnlyOwnKeys ==
    [][\A t \in TaskIds : RaceCompletes(t) =>
          /\ \A k \in DOMAIN state.cur \ OwnKeys(Top(tasks[t]).path) :
                k \in DOMAIN state'.cur /\ state'.cur[k] = state.cur[k]
          /\ state'.inserts = state.inserts
          /\ state'.output = state.output
          /\ state'.order_index = state.order_index]_vars

\* ------------------------------------------ the order of a sequence (C32)
\* the cursor key of the serial or for block that task t is executing
CursorKey(t) == sub_index_label(runtime_label(order, Top(tasks[t]).path))

\* the running task goes on in its block at the given point
GoesOn(t, m) == tasks'[t].flow.m = m /\ Len(tasks'[t].stack) = Len(tasks[t].stack)

\* the running task starts the subtask i of its block
Starts(t, i) ==
    /\ tasks'[t].flow.m = "call"
    /\ Len(tasks'[t].stack) = Len(tasks[t].stack) + 1
    /\ Top(tasks'[t]).path = Top(tasks[t]).path \o <<i>>

\* what a serial block does at each of its steps
SerialInOrder(t) ==
    LET key == CursorKey(t)
        body == TopTask(tasks[t]).tasks
        v == tasks[t].flow.v
    IN  /\ Executing(t, "call", "serial") =>
            state'.cur = Put(state.cur, key, Get(state.cur, key, 1)) /\ GoesOn(t, "loop")
        /\ Executing(t, "loop", "serial") =>
            /\ key \in DOMAIN state.cur
            /\ state.cur[key] <= Len(body) => Starts(t, state.cur[key]) /\ state'.cur = state.cur
        /\ (Executing(t, "ret", "serial") /\ v = "None") =>
            /\ key \in DOMAIN state.cur
            /\ state'.cur = Put(state.cur, key, state.cur[key] + 1)
            /\ GoesOn(t, "loop")
        /\ (Executing(t, "ret", "serial") /\ v # "None" /\ LabelIndices(body, v) # {}) =>
            /\ state'.cur = Put(state.cur, key, 2 + SetMin(LabelIndices(body, v)))
            /\ GoesOn(t, "loop")

\* C32: a serial block starts at its cursor (1 when state holds none), runs
\* the task under the cursor, advances the cursor by one after a task that
\* returned nothing (a goto to CONTINUE returns nothing) and moves it one
\* past the first label named L of its own body after a task that returned
\* the goto target L
C32_SerialInOrder ==
    [][\A t \in TaskIds : SerialInOrder(t)]_vars

\* ------------------------------------------------ the iterations of for
\* the lists of a for task have one length
SameLength(nlm) == Cardinality({Len(nlm[i].list) : i \in 1..Len(nlm)}) = 1

\* what a for block does at each of its steps
ForInOrder(t) ==
    LET f == Top(tasks[t])
        nlm == TopTask(tasks[t]).name_list_map
        body == TopTask(tasks[t]).tasks
        key == CursorKey(t)
        ckey == counter_label(runtime_label(order, f.path))
    IN  /\ (Executing(t, "call", "for") /\ ~SameLength(nlm)) =>
            /\ state' = state /\ heap' = heap
            /\ tasks'[t].flow.m = "raise" /\ tasks'[t].flow.from = f.path
        /\ (Executing(t, "call", "for") /\ SameLength(nlm)) =>
            /\ state'.cur = Put(state.cur, ckey, Get(state.cur, ckey, 1))
            /\ heap' = heap
            /\ GoesOn(t, "outer")
        /\ Executing(t, "outer", "for") =>
            /\ ckey \in DOMAIN state.cur
            /\ state.cur[ckey] <= Len(nlm[1].list) =>
                  /\ \A i \in 1..Len(nlm) :
                        /\ nlm[i].name \in DOMAIN heap'[f.ins]
                        /\ heap'[f.ins][nlm[i].name] = nlm[i].list[state.cur[ckey]]
                  /\ state'.cur = Put(state.cur, key, Get(state.cur, key, 1))
                  /\ GoesOn(t, "inner")
            /\ state.cur[ckey] > Len(nlm[1].list) =>
                  /\ state'.cur = Del(state.cur, ckey)
                  /\ tasks'[t].flow.m = "ret" /\ tasks'[t].flow.v = "None"
        /\ Executing(t, "inner", "for") =>
            /\ key \in DOMAIN state.cur /\ ckey \in DOMAIN state.cur
            /\ heap' = heap
            /\ state.cur[key] <= Len(body) => Starts(t, state.cur[key]) /\ state'.cur = state.cur
            /\ state.cur[key] > Len(body) =>
                  /\ state'.cur = Del(Put(state.cur, ckey, state.cur[ckey] + 1), key)
                  /\ GoesOn(t, "outer")

\* the body of OrderFor prints one character in each iteration
Iterations == Len(state.output)

\* C33: a for task whose lists have one length n runs its body n times, one
\* iteration after the other, every iteration variable bound to the item of
\* the iteration before the body's first task; a for task whose lists
\* differ in length fails before a body task runs and before an iteration
\* variable is written
C33_ForIterates ==
    /\ [][\A t \in TaskIds : ForInOrder(t)]_vars
    /\ []((run.order = OrderFor /\ Uninterrupted /\ main_pc = "exited") =>
             Iterations = Len(OrderFor[1].name_list_map[1].list))
    /\ [](run.order = OrderForBad =>
             /\ state.output = <<>>
             /\ DOMAIN heap[state.inserts] \cap {"x", "y"} = {}
             /\ \A t \in TaskIds : tasks[t].kind = "exec" => Len(tasks[t].stack) <= 1)

\* the uninterrupted run of OrderFor has ended after its second iteration
C33_witness ==
    /\ run.order = OrderFor
    /\ Uninterrupted
    /\ main_pc = "exited"
    /\ Iterations = 2

====
